---------------------------- MODULE Spec2Model ----------------------------
(***************************************************************************)
(* A model of the in-process task scheduler (package tasks):               *)
(* StdScheduler with its registry, its admission gate (taskSem), the       *)
(* per-task deferred-start alarm and interval timer, the execution         *)
(* goroutines and the error-handling decision.                             *)
(*                                                                         *)
(* Time is relative: every duration and every absolute time is kept as     *)
(* the number of clock units that remain until it is reached, and the      *)
(* action Tick lets one unit pass for all of them.  A timer may fire once  *)
(* its remaining time is 0 (it may fire late, never early).                *)
(***************************************************************************)
EXTENDS Integers, Sequences, FiniteSets, TLC

\* ------------------------------------------------------------- bounds
NumIDs == 2            \* identifiers callers and the generator draw from
NumCallers == 2        \* threads calling the scheduler's API
NumCallerTasks == 2    \* Task objects held by the callers
MaxCalls == 2          \* API calls made in one run
MaxExecs == 2          \* timer callbacks (execTask) started in one run
MaxRuns == 4           \* bodies counted for a run-once task whose executions are not kept
MaxWorkerLimit == 1    \* options tried: WorkerLimit in 0..MaxWorkerLimit
MaxTaskLimit == 1      \* options tried: TaskLimit in 0..MaxTaskLimit

IDs == 1 .. NumIDs
Callers == 1 .. NumCallers
CallerTasks == 1 .. NumCallerTasks

\* ------------------------------------------------------------- values
\* The error values of scheduler.go, lines 15-29, and Lookup's error.
ErrIDInUse == "ErrIDInUse"
ErrRetryOnErrorIntervalEmpty == "ErrRetryOnErrorIntervalEmpty"
ErrIntervalEmpty == "ErrIntervalEmpty"
ErrTaskExecFunctionsNotSet == "ErrTaskExecFunctionsNotSet"
ErrTaskErrFunctionsNotSet == "ErrTaskErrFunctionsNotSet"
ErrTaskLimitExceeded == "ErrTaskLimitExceeded"
ErrNotFound == "could not find task within the task list"
Nil == "nil"
None == "none"

\* Errors a reschedule policy can be registered for, and what a body returns:
\* nil, one of them, an error wrapping both (errors.Is matches both), or an
\* error that matches none.
PolicyErrors == {"E1", "E2"}
BodyResults == {Nil, "E1", "E2", "E12", "EX"}

\* errors.Is(err, e) for the values above.
ErrorsIs(err, e) ==
    \/ err = e
    \/ err = "E12" /\ e \in PolicyErrors

NoTok == 0
EmptyMap == [x \in {} |-> 0]

\* A reschedule policy map is an object of its own, which a Task points to:
\* no map (nil), the map of the caller's k-th Task, of the copy a caller got
\* from Lookup, of the o-th task the scheduler stored.
NilMap == 0
CallerMap(k) == k
CopyMap(c) == NumCallerTasks + c
StoredMap(o) == NumCallerTasks + NumCallers + o

\* The fields of a Task the caller sets.  StartAfter is the time that remains
\* until the StartAfter instant (0: now, in the past, or the zero time).
BaseTask ==
    [ TaskFunc |-> TRUE, FuncWithTaskContext |-> FALSE,
      ErrFunc |-> TRUE, ErrFuncWithTaskContext |-> FALSE,
      Interval |-> 1, RunOnce |-> FALSE,
      RetriesOnError |-> 0, RetryOnErrorInterval |-> 0,
      StartAfter |-> 0, rescheduleOnError |-> EmptyMap ]

\* A validation that looks at the interval before the error handler.
Validate_IntervalFirst(t) ==
    IF ~t.TaskFunc /\ ~t.FuncWithTaskContext THEN ErrTaskExecFunctionsNotSet
    ELSE IF ~t.RunOnce /\ t.Interval <= 0 THEN ErrIntervalEmpty
    ELSE IF ~t.ErrFunc /\ ~t.ErrFuncWithTaskContext THEN ErrTaskErrFunctionsNotSet
    ELSE IF t.RunOnce /\ t.RetriesOnError > 0 /\ t.RetryOnErrorInterval <= 0
         THEN ErrRetryOnErrorIntervalEmpty
    ELSE Nil

\* AddWithID's validation: the error of the first violated precondition, or nil.
Validate(t) ==
    IF ~t.TaskFunc /\ ~t.FuncWithTaskContext THEN ErrTaskExecFunctionsNotSet
    ELSE IF ~t.ErrFunc /\ ~t.ErrFuncWithTaskContext THEN ErrTaskErrFunctionsNotSet
    ELSE IF ~t.RunOnce /\ t.Interval <= 0 THEN ErrIntervalEmpty
    ELSE IF t.RunOnce /\ t.RetriesOnError > 0 /\ t.RetryOnErrorInterval <= 0
         THEN ErrRetryOnErrorIntervalEmpty
    ELSE Nil

\* WithRescheduleOnError(e, 1, 1) for every e of S, on a Task without policies.
Policies(S) == [e \in S |-> [interval |-> 1, count |-> 1]]

\* Valid Task values without reschedule policies: recurring, run-once,
\* run-once with a retry.
ValidTasks ==
    { BaseTask,
      [BaseTask EXCEPT !.RunOnce = TRUE],
      [BaseTask EXCEPT !.RunOnce = TRUE, !.RetriesOnError = 1,
                       !.RetryOnErrorInterval = 1,
                       !.TaskFunc = FALSE, !.FuncWithTaskContext = TRUE,
                       !.ErrFunc = FALSE, !.ErrFuncWithTaskContext = TRUE] }

\* Valid Task values with reschedule policies: recurring with one, run-once
\* with one, run-once with two.
PolicyTasks ==
    { [BaseTask EXCEPT !.rescheduleOnError = Policies({"E1"})],
      [BaseTask EXCEPT !.RunOnce = TRUE, !.rescheduleOnError = Policies({"E1"})],
      [BaseTask EXCEPT !.RunOnce = TRUE,
                       !.rescheduleOnError = Policies({"E1", "E2"})] }

\* The same with a StartAfter in the future or an Interval of 0.
TimedTasks ==
    { [BaseTask EXCEPT !.StartAfter = 1],
      [BaseTask EXCEPT !.RunOnce = TRUE, !.Interval = 0, !.StartAfter = 1],
      [BaseTask EXCEPT !.RunOnce = TRUE, !.RetriesOnError = 1,
                       !.RetryOnErrorInterval = 1] }

\* Every combination of a missing body, a missing error handler and a missing
\* interval or retry interval.
InvalidTasks ==
    { [BaseTask EXCEPT !.TaskFunc = ~noExec,
                       !.ErrFunc = ~noErr,
                       !.RunOnce = (third = "noRetryInterval"),
                       !.Interval = IF third = "noInterval" THEN 0 ELSE 1,
                       !.RetriesOnError = IF third = "noRetryInterval" THEN 1 ELSE 0] :
        noExec \in BOOLEAN, noErr \in BOOLEAN,
        third \in {"ok", "noInterval", "noRetryInterval"} } \ {BaseTask}

\* The Task values callers pass.
TaskMenu == ValidTasks \cup InvalidTasks

\* ------------------------------------------------------------- state
VARIABLES
    opts,      \* StdSchedulerOptions: [WorkerLimit, TaskLimit]
    tasks,     \* s.tasks: identifier -> index in objs of the stored task
    objs,      \* the Task objects the scheduler cloned, stored and scheduled
    ctask,     \* the callers' Task objects
    maps,      \* the reschedule policy maps: address -> (error -> [interval, count])
    canceled,  \* the cancellation tokens (contexts) that are canceled
    menu,      \* the Task values the callers pass in this run
    modes,     \* how they come by a Task object: "new", "newWithContext", "reuse"
    timed,     \* durations are kept (else every duration is 0: a timer may
               \* fire any time after it is armed)
    kept,      \* the history of the tasks is kept (it plays no part in a step)
    taskSem,   \* the admission gate: [n: values buffered, closed]
    callers,   \* the API threads: the call each is in, and its last result
    execs,     \* one record per timer fire: the callback and its body goroutine
    ncalls,    \* API calls (and Add's retries) made so far
    panicked   \* a goroutine panicked: the process is gone

vars == <<opts, menu, modes, timed, kept, tasks, objs, ctask, maps, canceled, taskSem,
          callers, execs, ncalls, panicked>>

\* The tokens created in the n-th call: the private context AddWithID makes,
\* and the user context (made by the caller, or by AddWithID if there is none).
CtxTok(n, a) == 2 * (n * (NumIDs + 1) + a)
UserTok(n) == 2 * n + 1

\* A Task as the caller allocates it, &Task{}: no id, no contexts, no timer,
\* and none of the fields the caller sets (cfg) set.
ZeroTask ==
    [ id |-> 0, tcid |-> 0, ctx |-> NoTok, uctx |-> NoTok, ucancel |-> FALSE,
      cfg |-> [ TaskFunc |-> FALSE, FuncWithTaskContext |-> FALSE,
                ErrFunc |-> FALSE, ErrFuncWithTaskContext |-> FALSE,
                Interval |-> 0, RunOnce |-> FALSE,
                RetriesOnError |-> 0, RetryOnErrorInterval |-> 0,
                StartAfter |-> 0, rescheduleOnError |-> NilMap ] ]

\* A lock acquisition: the lock ("registry": s.RWMutex, read or write;
\* "task": the mutex of a stored Task or of the Task a caller passed;
\* "clone": the mutex of a clone that Lookup handed to this thread alone) and
\* the locks the thread holds when it asks for it.
Acq(lock, held) == [ lock |-> lock, held |-> held ]

\* A safeOps called from inside a safeOps on the same Task.
SafeOpsLocks_Nested == { Acq("task", {"task"}) }

\* safeOps, lines 551-556: t.Lock() by a thread that holds nothing.
SafeOpsLocks == { Acq("task", {}) }

\* execTask, line 266, and lockSem, lines 296-300: the timer's callback
\* asks for a slot of the gate ("gate") before it has taken any lock.
GateLocks == { Acq("gate", {}) }

\* Task.Clone, lines 579-581: safeOps on the Task that is cloned.
CloneLocks(held) == { Acq("task", held) }

\* Lookup, lines 194-199: s.RLock(), and under it Clone of the task found.
LookupLocks(found) ==
    { Acq("registry", {}) } \cup (IF found THEN CloneLocks({"registry"}) ELSE {})

\* Tasks, lines 218-226: s.RLock(), and under it Clone of every task.
TasksLocks(n) ==
    { Acq("registry", {}) } \cup (IF n > 0 THEN CloneLocks({"registry"}) ELSE {})

\* Has, lines 205-207: s.RLock().
HasLocks == { Acq("registry", {}) }

\* AddWithID, lines 141-153: s.Lock(), and under it, if the capacity and
\* the identifier allow the registration, Clone of the Task passed.
AddLocks(cloned) ==
    { Acq("registry", {}) } \cup (IF cloned THEN CloneLocks({"registry"}) ELSE {})

\* A Del that locks the stored task instead of the clone.
DelLocks_Stored == { Acq("task", {}), Acq("registry", {"task"}) }

\* Del after its Lookup, lines 177-185: t.Lock() on the clone Lookup
\* returned, then s.Lock().
DelLocks == { Acq("clone", {}), Acq("registry", {"clone"}) }

NoDel == [ obj |-> 0, timerSeen |-> FALSE ]

\* No copy of a stored task: what a caller holds before Lookup or Tasks gave
\* it one.  In a copy, timer is the pointer Clone copies: the stored task
\* whose timer it is (0: nil).
NoCopy ==
    [ TaskFunc |-> FALSE, FuncWithTaskContext |-> FALSE,
      ErrFunc |-> FALSE, ErrFuncWithTaskContext |-> FALSE,
      Interval |-> 0, StartAfter |-> 0, RunOnce |-> FALSE,
      RetriesOnError |-> 0, RetryOnErrorInterval |-> 0,
      id |-> 0, ctx |-> NoTok, timer |-> 0,
      tcid |-> 0, uctx |-> NoTok, ucancel |-> FALSE,
      rescheduleOnError |-> NilMap ]

IdleCaller ==
    [ pc |-> "idle", op |-> None, n |-> 0, id |-> 0, k |-> 0, cfg |-> BaseTask,
      ret |-> None, del |-> NoDel, todo |-> {}, tried |-> {}, copy |-> NoCopy,
      snap |-> {}, acqs |-> {} ]

NilTimer == [ st |-> "nil", rem |-> 0 ]
Armed(d) == [ st |-> "armed", rem |-> IF timed THEN d ELSE 0 ]
Idle == [ st |-> "idle", rem |-> 0 ]

\* The callers pass one kind of Task per run, newly allocated; in some runs
\* of a recurring task with a context of the caller's in its TaskContext.
Init ==
    /\ opts \in [ WorkerLimit : 0 .. MaxWorkerLimit, TaskLimit : 0 .. MaxTaskLimit ]
    /\ menu \in { {t} : t \in TaskMenu }
    /\ modes \in { {"new"}, {"newWithContext"} }
    /\ modes = {"newWithContext"} => menu = {BaseTask} /\ opts.TaskLimit = 0
    /\ timed = FALSE
    /\ kept = TRUE
    /\ tasks = EmptyMap
    /\ objs = <<>>
    /\ ctask = [ k \in CallerTasks |-> ZeroTask ]
    /\ maps = EmptyMap
    /\ canceled = {}
    /\ taskSem = [ n |-> 0, closed |-> FALSE ]
    /\ callers = [ c \in Callers |-> IdleCaller ]
    /\ execs = <<>>
    /\ ncalls = 0
    /\ panicked = FALSE

\* ------------------------------------------------------------- queries
\* Has: the identifier is a key of the registry.
Has(name) == name \in DOMAIN tasks

\* A Lookup that reports no error for an identifier it does not find.
Lookup_NoError(name) ==
    IF name \in DOMAIN tasks
    THEN [ task |-> objs[tasks[name]], err |-> Nil ]
    ELSE [ task |-> None, err |-> Nil ]

\* Lookup: a copy of the stored task, or the not-found error.
Lookup(name) ==
    IF name \in DOMAIN tasks
    THEN [ task |-> objs[tasks[name]], err |-> Nil ]
    ELSE [ task |-> None, err |-> ErrNotFound ]

\* Tasks: a copy of the registry, identifier -> copy of the stored task.
Tasks == [ name \in DOMAIN tasks |-> objs[tasks[name]] ]

\* ------------------------------------------------------------- registration
\* What a finished call leaves in the caller's record.
Returned(c, err) ==
    [IdleCaller EXCEPT !.op = callers[c].op, !.ret = err,
                       !.tried = callers[c].tried,
                       !.acqs = callers[c].acqs]

\* The map m with the value v at the address a.
Store(m, a, v) == [ x \in DOMAIN m \cup {a} |-> IF x = a THEN v ELSE m[x] ]

\* The policies of a Task: those of the map it points to.
PolicyMap(t) ==
    IF t.rescheduleOnError = NilMap THEN EmptyMap ELSE maps[t.rescheduleOnError]

\* The fields a caller sets in its k-th Task: the policies are in a map
\* WithRescheduleOnError made, if it was called.
CallerCfg(k, cfg) ==
    [cfg EXCEPT !.rescheduleOnError = IF @ = EmptyMap THEN NilMap ELSE CallerMap(k)]

\* The Task object a caller passes: a newly allocated one (with or without a
\* context of the caller's in TaskContext), or one passed to the scheduler
\* before, as the scheduler left it.
PassedTask(k, cfg, mode) ==
    IF mode = "new" THEN [ZeroTask EXCEPT !.cfg = CallerCfg(k, cfg)]
    ELSE IF mode = "newWithContext"
         THEN [ZeroTask EXCEPT !.cfg = CallerCfg(k, cfg),
                               !.uctx = UserTok(ncalls + 1)]
    ELSE ctask[k]

\* AddWithID, lines 131-138: the new private context and the TaskContext,
\* written into the caller's Task t in the n-th call (a: the identifiers Add
\* has tried before).
Prepared(t, n, a, id) ==
    [t EXCEPT !.ctx = CtxTok(n, a),
              !.tcid = id,
              !.uctx = IF t.uctx = NoTok THEN UserTok(n) ELSE @,
              !.ucancel = IF t.uctx = NoTok THEN TRUE ELSE @]

\* A caller calls Add or AddWithID: of the threads that are free, the first
\* makes the call, and a new Task object is the thread's own.  AddWithID,
\* lines 113-138: the validation, which returns the first error it finds,
\* then the contexts.
CallAdd(c, op, id, k, cfg, mode) ==
    /\ ~panicked
    /\ callers[c].pc = "idle"
    /\ ncalls < MaxCalls
    /\ cfg \in menu
    /\ mode \in modes
    /\ \A d \in Callers : d < c => callers[d].pc # "idle"
    /\ IF mode = "reuse" THEN ctask[k] # ZeroTask ELSE k = c
    /\ ncalls' = ncalls + 1
    /\ IF Validate(cfg) # Nil
       THEN /\ callers' = [callers EXCEPT ![c] =
                             [IdleCaller EXCEPT !.op = op, !.ret = Validate(cfg),
                                                !.k = k, !.cfg = cfg]]
            /\ ctask' = [ctask EXCEPT ![k] = PassedTask(k, cfg, mode)]
       ELSE /\ callers' = [callers EXCEPT ![c] =
                             [IdleCaller EXCEPT !.pc = "locked", !.op = op, !.id = id,
                                                !.n = ncalls + 1, !.k = k,
                                                !.cfg = cfg]]
            /\ ctask' = [ctask EXCEPT ![k] =
                           Prepared(PassedTask(k, cfg, mode), ncalls + 1, 0, id)]
    /\ maps' = IF mode # "reuse" /\ cfg.rescheduleOnError # EmptyMap
               THEN Store(maps, CallerMap(k), cfg.rescheduleOnError)
               ELSE maps
    /\ UNCHANGED <<opts, menu, modes, timed, kept, tasks, objs, canceled, taskSem, execs, panicked>>

\* A capacity check that is off by one: len(s.tasks) > TaskLimit.
LimitReached_OffByOne(limit, n) == limit > 0 /\ n > limit

\* len(s.tasks) >= TaskLimit, with a limit configured.
LimitReached(limit, n) == limit > 0 /\ n >= limit

\* A registration that does not look for the identifier.
IDInUse_Unchecked(reg, id) == FALSE

\* The identifier is a key of s.tasks.
IDInUse(reg, id) == id \in DOMAIN reg

\* An insertion that loses the task.
Insert_Lost(reg, id, o) == reg

\* s.tasks[t.id] = task, line 156.
Insert(reg, id, o) ==
    [ name \in DOMAIN reg \cup {id} |-> IF name = id THEN o ELSE reg[name] ]

\* An Add that returns whatever AddWithID returned.
AddRetries_Never(op, err) == FALSE

\* Add, line 87: on ErrIDInUse it tries again instead of returning.
AddRetries(op, err) == op = "Add" /\ err = ErrIDInUse

\* An alarm that does not wait for StartAfter.
AlarmDelay_AtOnce(startAfter) == 0

\* time.Until(t.StartAfter) as time.AfterFunc takes it: a duration that is
\* not positive fires at once.
AlarmDelay(startAfter) == IF startAfter > 0 THEN startAfter ELSE 0

\* A Clone that copies the pointer to the policies, not the policies.
CloneMap_Shared(src, fresh) == src

\* Task.Clone, lines 598-605: the clone of a Task that has policies gets a
\* new map (at the address fresh); the clone of one without gets none.
CloneMap(src, fresh) == IF src = NilMap THEN NilMap ELSE fresh

\* The policy maps after a Clone: the new map holds the entries of the old.
ClonedMaps(m, src, dst) ==
    IF dst = NilMap \/ dst = src THEN m ELSE Store(m, dst, m[src])

\* Task.Clone of the caller's Task (its fields cfg, and rt written by
\* AddWithID), as scheduleTask then arms it.
Clone(cfg, rt, fresh) ==
    [ TaskFunc |-> cfg.TaskFunc, FuncWithTaskContext |-> cfg.FuncWithTaskContext,
      ErrFunc |-> cfg.ErrFunc, ErrFuncWithTaskContext |-> cfg.ErrFuncWithTaskContext,
      Interval |-> cfg.Interval, StartAfter |-> cfg.StartAfter,
      RunOnce |-> cfg.RunOnce, RetriesOnError |-> cfg.RetriesOnError,
      RetryOnErrorInterval |-> cfg.RetryOnErrorInterval,
      id |-> rt.id, ctx |-> rt.ctx, timer |-> NilTimer,
      tcid |-> rt.tcid, uctx |-> rt.uctx, ucancel |-> rt.ucancel,
      rescheduleOnError |-> CloneMap(cfg.rescheduleOnError, fresh) ]

\* A count of events kept with a stored task, up to MaxExecs.
Count(n) == IF kept /\ n < MaxExecs THEN n + 1 ELSE n

\* The count of the bodies started: for a run-once task it goes on, up to
\* MaxRuns, where the executions themselves are not kept.
Started(runOnce, n) ==
    IF kept THEN Count(n)
    ELSE IF runOnce /\ n < MaxRuns THEN n + 1 ELSE n

\* History kept with a stored task: the time that remains until StartAfter and
\* until StartAfter (or the registration, if later) plus Interval; whether a Del
\* of it has returned (and how many), whether one had before its alarm fired,
\* and whether a Del other than that of its own execution has removed or
\* canceled it; whether a body of it has returned nil;
\* whether it is the registry's entry for its identifier; how often its error
\* handler was started; the bodies started, those that returned nil and
\* those that returned an error; the timer resets of the policies; the retries and the policies it was registered with.
History(cfg, policies) ==
    [ untilStart |-> IF timed THEN cfg.StartAfter ELSE 0,
      minWait |-> IF timed THEN cfg.StartAfter + cfg.Interval ELSE 0,
      stored |-> TRUE, delReturned |-> FALSE, delBeforeAlarm |-> FALSE,
      extDel |-> FALSE, succeeded |-> FALSE, dels |-> 0, errCalls |-> 0,
      runs |-> 0, oks |-> 0, fails |-> 0, resets |-> 0,
      retries0 |-> cfg.RetriesOnError, policies0 |-> policies ]

\* scheduleTask, lines 242-243: the deferred-start alarm.
ScheduleTask(task, policies) ==
    [ t |-> task, alarm |-> Armed(AlarmDelay(task.StartAfter)),
      h |-> History(task, policies) ]

\* AddWithID, lines 140-160, under s.Lock: the capacity check, the
\* duplicate-identifier check, the insertion of the clone and its scheduling.
\* Add (lines 84-93) calls AddWithID again on ErrIDInUse, with a newly
\* generated identifier: the validation passes again and the contexts are
\* made again.
AddLocked(c) ==
    /\ ~panicked
    /\ callers[c].pc = "locked"
    /\ LET r == callers[c] IN
       IF LimitReached(opts.TaskLimit, Cardinality(DOMAIN tasks))
       THEN /\ callers' = [callers EXCEPT ![c] =
                             [Returned(c, ErrTaskLimitExceeded) EXCEPT
                                !.acqs = @ \cup AddLocks(FALSE)]]
            /\ UNCHANGED <<tasks, objs, ctask, maps>>
       ELSE IF IDInUse(tasks, r.id)
       THEN /\ IF AddRetries(r.op, ErrIDInUse)
               THEN \E id \in IDs \ (r.tried \cup {r.id}) :
                      /\ callers' = [callers EXCEPT ![c].id = id,
                                                    ![c].tried = @ \cup {r.id},
                                                    ![c].acqs = @ \cup AddLocks(FALSE)]
                      /\ ctask' = [ctask EXCEPT ![r.k] =
                                     Prepared(@, r.n, Cardinality(r.tried) + 1, id)]
               ELSE /\ callers' = [callers EXCEPT ![c] =
                                     [Returned(c, ErrIDInUse) EXCEPT
                                        !.acqs = @ \cup AddLocks(FALSE)]]
                    /\ UNCHANGED ctask
            /\ UNCHANGED <<tasks, objs, maps>>
       ELSE /\ ctask' = [ctask EXCEPT ![r.k].id = r.id]
            /\ objs' = Append(objs, ScheduleTask(
                          Clone(ctask[r.k].cfg, ctask'[r.k], StoredMap(Len(objs) + 1)),
                          PolicyMap(ctask[r.k].cfg)))
            /\ maps' = ClonedMaps(maps, ctask[r.k].cfg.rescheduleOnError,
                                  objs'[Len(objs')].t.rescheduleOnError)
            /\ tasks' = Insert(tasks, r.id, Len(objs) + 1)
            /\ callers' = [callers EXCEPT ![c] =
                             [Returned(c, Nil) EXCEPT !.acqs = @ \cup AddLocks(TRUE)]]
    /\ UNCHANGED <<opts, menu, modes, timed, kept, canceled, taskSem, execs, ncalls, panicked>>

\* ------------------------------------------------------------- deletion
\* A Lookup that finds the task stored first, whatever the name.
DelLookupResult_Any(name) ==
    IF objs # <<>>
    THEN [ obj |-> 1, timerSeen |-> objs[1].t.timer.st # "nil" ]
    ELSE NoDel

\* Del, lines 166-169: Lookup returns a clone of the stored task, taken under
\* the registry's read lock: the task found, and whether its timer was set.
DelLookupResult(name) ==
    IF name \in DOMAIN tasks
    THEN [ obj |-> tasks[name], timerSeen |-> objs[tasks[name]].t.timer.st # "nil" ]
    ELSE NoDel

\* A Stop that gives the timer handle up.
TimerStop_Clears(timer) == NilTimer

\* timer.Stop(): an armed timer no longer fires.
TimerStop(timer) == IF timer.st = "armed" THEN Idle ELSE timer

\* What Del's deferred t.timer.Stop() does to the task's timer: the clone
\* holds the timer only if it was set when the clone was taken.
DelStopsTimer(timerSeen, timer) == IF timerSeen THEN TimerStop(timer) ELSE timer

\* A Del that forgets the private token.
DelCancels_UserOnly(t) == IF t.ucancel THEN {t.uctx} ELSE {}

\* The tokens Del cancels: the private one, and the user one if the
\* TaskContext carries a Cancel function.
DelCancels(t) == {t.ctx} \cup (IF t.ucancel THEN {t.uctx} ELSE {})

\* Del, lines 184-187: delete(s.tasks, name) under the registry lock, which
\* removes whatever task is stored under the name.
\* (by: the task whose execution calls Del, 0 if a caller does.)
DelCommitEffect(name, d, by) ==
    /\ tasks' = [ n \in DOMAIN tasks \ {name} |-> tasks[n] ]
    /\ objs' = [ o \in DOMAIN objs |->
                 IF name \in DOMAIN tasks /\ tasks[name] = o
                 THEN [objs[o] EXCEPT !.h.stored = FALSE,
                                      !.h.extDel = @ \/ by # o]
                 ELSE objs[o] ]

\* Del's deferred calls, lines 172-182, which run once the registry lock is
\* released: the clone's timer is stopped, the user token and the private
\* token are canceled; Del returns.
DelDeferredEffect(d, by) ==
    /\ objs' = [objs EXCEPT ![d.obj] =
                  [@ EXCEPT !.t.timer = DelStopsTimer(d.timerSeen, @),
                            !.h.delReturned = TRUE,
                            !.h.dels = Count(@),
                            !.h.extDel = @ \/ by # d.obj,
                            !.h.delBeforeAlarm = @ \/ objs[d.obj].alarm.st = "armed"]]
    /\ canceled' = canceled \cup DelCancels(objs[d.obj].t)

\* A caller calls Del, which begins with the Lookup.
CallDel(c, name) ==
    /\ ~panicked
    /\ callers[c].pc = "idle"
    /\ \A d \in Callers : d < c => callers[d].pc # "idle"
    /\ ncalls < MaxCalls
    /\ LET d == DelLookupResult(name) IN
       callers' = [callers EXCEPT ![c] =
                     IF d = NoDel
                     THEN [IdleCaller EXCEPT !.op = "Del", !.id = name,
                                             !.ret = "returned",
                                             !.acqs = LookupLocks(FALSE)]
                     ELSE [IdleCaller EXCEPT !.pc = "delCommit", !.op = "Del",
                                             !.id = name, !.del = d,
                                             !.acqs = LookupLocks(TRUE)]]
    /\ ncalls' = ncalls + 1
    /\ UNCHANGED <<opts, menu, modes, timed, kept, maps, tasks, objs, ctask, canceled, taskSem, execs, panicked>>

DelCommit(c) ==
    /\ ~panicked
    /\ callers[c].pc = "delCommit"
    /\ DelCommitEffect(callers[c].id, callers[c].del, 0)
    /\ callers' = [callers EXCEPT ![c].pc = "delDeferred",
                                  ![c].acqs = @ \cup DelLocks]
    /\ UNCHANGED <<opts, menu, modes, timed, kept, maps, ctask, canceled, taskSem, execs,
                   ncalls, panicked>>

DelDeferred(c) ==
    /\ ~panicked
    /\ callers[c].pc = "delDeferred"
    /\ DelDeferredEffect(callers[c].del, 0)
    /\ callers' = [callers EXCEPT ![c] = Returned(c, "returned")]
    /\ UNCHANGED <<opts, menu, modes, timed, kept, maps, tasks, ctask, taskSem, execs,
                   ncalls, panicked>>

\* ------------------------------------------------------------- Stop
\* Stop, line 230: the snapshot of the registry's keys.  (Kept with the
\* caller: the tasks that were registered, snap, and how many tasks had been
\* registered in all, n.)
CallStop(c) ==
    /\ ~panicked
    /\ callers[c].pc = "idle"
    /\ \A d \in Callers : d < c => callers[d].pc # "idle"
    /\ ncalls < MaxCalls
    /\ callers' = [callers EXCEPT ![c] =
                     [IdleCaller EXCEPT !.pc = "stopLoop", !.op = "Stop",
                                        !.todo = DOMAIN tasks,
                                        !.n = Len(objs),
                                        !.snap = { tasks[n] : n \in DOMAIN tasks },
                                        !.acqs = TasksLocks(Cardinality(DOMAIN tasks))]]
    /\ ncalls' = ncalls + 1
    /\ UNCHANGED <<opts, menu, modes, timed, kept, maps, tasks, objs, ctask, canceled, taskSem, execs, panicked>>

\* Stop, lines 231-233: the next key of the snapshot, and Del's Lookup of it.
StopNext(c) ==
    /\ ~panicked
    /\ callers[c].pc = "stopLoop"
    /\ \E n \in callers[c].todo :
         LET d == DelLookupResult(n) IN
         callers' = [callers EXCEPT ![c] =
                       IF d = NoDel
                       THEN [@ EXCEPT !.todo = @ \ {n},
                                      !.acqs = @ \cup LookupLocks(FALSE)]
                       ELSE [@ EXCEPT !.pc = "stopDel", !.id = n, !.del = d,
                                      !.todo = @ \ {n},
                                      !.acqs = @ \cup LookupLocks(TRUE)]]
    /\ UNCHANGED <<opts, menu, modes, timed, kept, maps, tasks, objs, ctask, canceled, taskSem, execs,
                   ncalls, panicked>>

StopDel(c) ==
    /\ ~panicked
    /\ callers[c].pc = "stopDel"
    /\ DelCommitEffect(callers[c].id, callers[c].del, 0)
    /\ callers' = [callers EXCEPT ![c].pc = "stopDeferred",
                                  ![c].acqs = @ \cup DelLocks]
    /\ UNCHANGED <<opts, menu, modes, timed, kept, maps, ctask, canceled, taskSem, execs,
                   ncalls, panicked>>

StopDelDeferred(c) ==
    /\ ~panicked
    /\ callers[c].pc = "stopDeferred"
    /\ DelDeferredEffect(callers[c].del, 0)
    /\ callers' = [callers EXCEPT ![c].pc = "stopLoop", ![c].del = NoDel]
    /\ UNCHANGED <<opts, menu, modes, timed, kept, maps, tasks, ctask, taskSem, execs,
                   ncalls, panicked>>

\* Stop, lines 235-237: close(s.taskSem); closing a closed channel panics.
StopClose(c) ==
    /\ ~panicked
    /\ callers[c].pc = "stopLoop"
    /\ callers[c].todo = {}
    /\ IF opts.WorkerLimit > 0
       THEN IF taskSem.closed
            THEN panicked' = TRUE /\ UNCHANGED taskSem
            ELSE taskSem' = [taskSem EXCEPT !.closed = TRUE] /\ UNCHANGED panicked
       ELSE UNCHANGED <<taskSem, panicked>>
    /\ callers' = [callers EXCEPT ![c] =
                     [Returned(c, "returned") EXCEPT !.n = callers[c].n,
                                                     !.snap = callers[c].snap]]
    /\ UNCHANGED <<opts, menu, modes, timed, kept, maps, tasks, objs, ctask, canceled, execs, ncalls>>

\* ------------------------------------------------------------- scheduling
\* scheduleTask, lines 243-253: the alarm fires and its callback reads
\* t.ctx.Err(): a canceled task is abandoned.
AlarmFire(o) ==
    /\ ~panicked
    /\ objs[o].alarm.st = "armed"
    /\ objs[o].alarm.rem = 0
    /\ objs' = [objs EXCEPT ![o].alarm =
                  IF objs[o].t.ctx \in canceled
                  THEN [ st |-> "done", rem |-> 0 ]
                  ELSE [ st |-> "checked", rem |-> 0 ]]
    /\ UNCHANGED <<opts, menu, modes, timed, kept, maps, tasks, ctask, canceled, taskSem, callers, execs,
                   ncalls, panicked>>

\* scheduleTask, lines 255-258: t.timer = time.AfterFunc(t.Interval, execTask).
AlarmArm(o) ==
    /\ ~panicked
    /\ objs[o].alarm.st = "checked"
    /\ objs' = [objs EXCEPT ![o].alarm = [ st |-> "done", rem |-> 0 ],
                            ![o].t.timer = Armed(objs[o].t.Interval)]
    /\ UNCHANGED <<opts, menu, modes, timed, kept, maps, tasks, ctask, canceled, taskSem, callers, execs,
                   ncalls, panicked>>

\* No policy entry held.
NoOpts == [ e |-> None, interval |-> 0, count |-> 0 ]

\* The executions after a step: where no history is kept, nothing remains of
\* one whose callback and goroutine have both returned.
Settled(seq) ==
    IF kept THEN seq
    ELSE SelectSeq(seq, LAMBDA x : ~(x.cb = "done" /\ x.body = "done"))

\* An execution: the timer's callback (cb) and the goroutine it spawns
\* (body), whether the body began after a Del of the task had returned or after
\* a body of the task had returned nil, with what the body returned (res: nil or an error, and matched: the
\* errors among those the task was registered with policies for that it
\* matches), the matching policy entries rescheduleTaskOnError has not come to
\* (todo) and the entry it holds (opts).
NewExec(o) ==
    [ obj |-> o, cb |-> "lockSem", body |-> "none", del |-> NoDel,
      afterDel |-> FALSE, afterNil |-> FALSE, res |-> None, matched |-> {},
      todo |-> {}, spent |-> FALSE,
      opts |-> NoOpts, acqs |-> {} ]

\* The interval timer fires: its callback, execTask, starts.
TimerFire(o) ==
    /\ ~panicked
    /\ objs[o].t.timer.st = "armed"
    /\ objs[o].t.timer.rem = 0
    /\ Len(execs) < MaxExecs
    /\ objs' = [objs EXCEPT ![o].t.timer = Idle]
    /\ execs' = Append(execs, NewExec(o))
    /\ UNCHANGED <<opts, menu, modes, timed, kept, maps, tasks, ctask, canceled, taskSem, callers,
                   ncalls, panicked>>

\* A gate with one slot too many.
SemHasRoom_OneMore(n, limit) == n <= limit

\* lockSem: a send on a channel of capacity WorkerLimit blocks while the
\* buffer is full.
SemHasRoom(n, limit) == n < limit

\* A scheduler that resets no timer after a tick.
Recurs_Never(runOnce) == FALSE

\* execTask, line 289: a recurring task's timer is reset after the tick.
Recurs(runOnce) == ~runOnce

\* execTask, lines 266-288: the slot is acquired and the body's goroutine
\* spawned.  With no worker limit taskSem is nil and lockSem does nothing.
ExecAcquire(e) ==
    /\ ~panicked
    /\ execs[e].cb = "lockSem"
    /\ IF opts.WorkerLimit > 0
       THEN /\ ~taskSem.closed
            /\ SemHasRoom(taskSem.n, opts.WorkerLimit)
            /\ taskSem' = [taskSem EXCEPT !.n = @ + 1]
       ELSE UNCHANGED taskSem
    /\ execs' = [execs EXCEPT ![e].cb = IF Recurs(objs[execs[e].obj].t.RunOnce)
                                        THEN "reset" ELSE "done",
                              ![e].body = "run",
                              ![e].acqs = IF opts.WorkerLimit > 0
                                          THEN @ \cup GateLocks ELSE @,
                              ![e].afterDel = objs[execs[e].obj].h.delReturned,
                              ![e].afterNil = objs[execs[e].obj].h.succeeded]
    /\ objs' = [objs EXCEPT ![execs[e].obj].h.runs =
                               Started(objs[execs[e].obj].t.RunOnce, @)]
    /\ UNCHANGED <<opts, menu, modes, timed, kept, maps, tasks, ctask, canceled, callers, ncalls, panicked>>

\* lockSem after Stop: a send on a closed channel panics.
ExecPanic(e) ==
    /\ ~panicked
    /\ execs[e].cb = "lockSem"
    /\ opts.WorkerLimit > 0
    /\ taskSem.closed
    /\ panicked' = TRUE
    /\ UNCHANGED <<opts, menu, modes, timed, kept, maps, tasks, objs, ctask, canceled, taskSem, callers,
                   execs, ncalls>>

\* A callback that waits for the body it spawned before it goes on.
Spawned_Joined(body) == body = "done"

\* execTask, lines 268-288: the go statement starts the goroutine and
\* returns; the callback goes on whatever the goroutine does.
Spawned(body) == body # "none"

\* execTask, lines 289-293: a recurring task's timer is reset at once.
ExecReset(e) ==
    /\ ~panicked
    /\ execs[e].cb = "reset"
    /\ Spawned(execs[e].body)
    /\ objs' = [objs EXCEPT ![execs[e].obj].t.timer = Armed(objs[execs[e].obj].t.Interval)]
    /\ execs' = Settled([execs EXCEPT ![e].cb = "done",
                                      ![e].acqs = @ \cup SafeOpsLocks])
    /\ UNCHANGED <<opts, menu, modes, timed, kept, maps, tasks, ctask, canceled, taskSem, callers,
                   ncalls, panicked>>

\* ------------------------------------------------------------- errors
\* A match that overlooks the entries that are used up.
Matching_LiveOnly(t, err) ==
    { e \in DOMAIN PolicyMap(t) : ErrorsIs(err, e) /\ PolicyMap(t)[e].count > 0 }

\* rescheduleTaskOnError, lines 340-343: the policy errors the returned error
\* matches.
Matching(t, err) == { e \in DOMAIN PolicyMap(t) : ErrorsIs(err, e) }

\* An entry that is never used up.
Exhausted_Never(o) == FALSE

\* rescheduleTaskOnError, line 347: the entry has no reschedules left.
Exhausted(o) == o.count <= 0

\* An error path that retries without counting the retries.
GenericFailure_Uncounted(t) ==
    IF t.RunOnce /\ t.RetriesOnError > 0
    THEN [ t |-> [t EXCEPT !.timer = Armed(t.RetryOnErrorInterval)],
           deleteTask |-> FALSE, errCalled |-> TRUE ]
    ELSE [ t |-> t, deleteTask |-> TRUE, errCalled |-> TRUE ]

\* An error path that starts the handler only for a task it deletes.
GenericFailure_QuietRetry(t) ==
    IF t.RunOnce /\ t.RetriesOnError > 0
    THEN [ t |-> [t EXCEPT !.RetriesOnError = @ - 1,
                           !.timer = Armed(t.RetryOnErrorInterval)],
           deleteTask |-> FALSE, errCalled |-> FALSE ]
    ELSE [ t |-> t, deleteTask |-> TRUE, errCalled |-> TRUE ]

\* onTaskError's generic path, lines 313-332: the error handler is started;
\* a run-once task with retries left is retried, any other is to be deleted.
GenericFailure(t) ==
    IF t.RunOnce /\ t.RetriesOnError > 0
    THEN [ t |-> [t EXCEPT !.RetriesOnError = @ - 1,
                           !.timer = Armed(t.RetryOnErrorInterval)],
           deleteTask |-> FALSE, errCalled |-> TRUE ]
    ELSE [ t |-> t, deleteTask |-> TRUE, errCalled |-> TRUE ]

\* An execution that deletes the task, run-once or not.
DeletesTask_Any(runOnce, deleteTask) == deleteTask

\* execTask, line 285: the execution ends with Del of the task.
DeletesTask(runOnce, deleteTask) == runOnce /\ deleteTask

\* The goroutine of execTask, lines 271-287: the body returns err.  nil: a
\* run-once task goes on to Del.  An error goes to onTaskError: if it matches
\* a policy, rescheduleTaskOnError walks the matching entries; if not, the
\* generic path is taken, and a run-once task to be deleted goes on to Del.
BodyReturn(e, err) ==
    /\ ~panicked
    /\ execs[e].body = "run"
    /\ LET o == execs[e].obj
           t == objs[o].t
           out == IF err = Nil
                  THEN [ t |-> t, deleteTask |-> TRUE, errCalled |-> FALSE ]
                  ELSE IF Matching(t, err) # {}
                  THEN [ t |-> t, deleteTask |-> FALSE, errCalled |-> FALSE ]
                  ELSE GenericFailure(t)
       IN  /\ objs' = [objs EXCEPT ![o].t = out.t,
                                   ![o].h.errCalls = IF out.errCalled
                                                     THEN Count(@) ELSE @,
                                   ![o].h.succeeded = @ \/ err = Nil,
                                   ![o].h.oks = IF err = Nil THEN Count(@) ELSE @,
                                   ![o].h.fails = IF err # Nil THEN Count(@) ELSE @]
           /\ execs' = [execs EXCEPT
                          ![e].res = IF err = Nil THEN Nil ELSE "error",
                          ![e].matched = { k \in DOMAIN objs[o].h.policies0 :
                                             ErrorsIs(err, k) },
                          ![e].todo = IF err # Nil THEN Matching(t, err) ELSE {},
                          ![e].acqs = IF out.t # t THEN @ \cup SafeOpsLocks ELSE @,
                          ![e].body =
                            IF err # Nil /\ Matching(t, err) # {} THEN "resched"
                            ELSE IF DeletesTask(t.RunOnce, out.deleteTask)
                                 THEN "delLookup" ELSE "unlock"]
    /\ UNCHANGED <<opts, menu, modes, timed, kept, maps, tasks, ctask, canceled, taskSem, callers,
                   ncalls, panicked>>

\* An error path that removes the task when the entry is used up.
Spent_Deletes(x) ==
    [x EXCEPT !.body = "delLookup", !.todo = {}, !.spent = TRUE]

\* rescheduleTaskOnError, lines 345-349, and onTaskError's return of false
\* for a matched error: the entry is used up, the loop ends, nothing is
\* reset, and the goroutine is left with its deferred release of the slot.
Spent(x) == [x EXCEPT !.body = "unlock", !.todo = {}, !.spent = TRUE]

\* rescheduleTaskOnError, lines 340-349: the loop comes to a matching entry
\* (in any order) and reads it; one that is used up ends the loop.
ReschedRead(e, k) ==
    /\ ~panicked
    /\ execs[e].body = "resched"
    /\ k \in execs[e].todo
    /\ LET o == PolicyMap(objs[execs[e].obj].t)[k] IN
       execs' = [execs EXCEPT ![e] =
                   IF Exhausted(o)
                   THEN Spent(@)
                   ELSE [@ EXCEPT !.body = "reschedWrite",
                                  !.opts = [ e |-> k, interval |-> o.interval,
                                             count |-> o.count - 1 ]]]
    /\ UNCHANGED <<opts, menu, modes, timed, kept, maps, tasks, objs, ctask, canceled, taskSem,
                   callers, ncalls, panicked>>

\* rescheduleTaskOnError, lines 351-355, under the task's lock: the timer is
\* reset to the entry's interval and the decremented entry is written back.
ReschedWrite(e) ==
    /\ ~panicked
    /\ execs[e].body = "reschedWrite"
    /\ LET o == execs[e].obj
           w == execs[e].opts
           a == objs[o].t.rescheduleOnError
           rest == execs[e].todo \ {w.e}
       IN  /\ objs' = [objs EXCEPT ![o].t.timer = Armed(w.interval),
                                   ![o].h.resets = Count(@)]
           /\ maps' = [maps EXCEPT ![a][w.e] =
                         [ interval |-> w.interval, count |-> w.count ]]
           /\ execs' = [execs EXCEPT ![e].body = IF rest = {} THEN "unlock"
                                                 ELSE "resched",
                                     ![e].todo = rest,
                                     ![e].opts = NoOpts,
                                     ![e].acqs = @ \cup SafeOpsLocks]
    /\ UNCHANGED <<opts, menu, modes, timed, kept, tasks, ctask, canceled, taskSem, callers,
                   ncalls, panicked>>

\* The goroutine's deferred s.Del(t.id), line 286.
ExecDelLookup(e) ==
    /\ ~panicked
    /\ execs[e].body = "delLookup"
    /\ LET d == DelLookupResult(objs[execs[e].obj].t.id) IN
       execs' = [execs EXCEPT ![e] =
                   IF d = NoDel
                   THEN [@ EXCEPT !.body = "unlock",
                                  !.acqs = @ \cup LookupLocks(FALSE)]
                   ELSE [@ EXCEPT !.body = "delCommit", !.del = d,
                                  !.acqs = @ \cup LookupLocks(TRUE)]]
    /\ UNCHANGED <<opts, menu, modes, timed, kept, maps, tasks, objs, ctask, canceled, taskSem, callers,
                   ncalls, panicked>>

ExecDelCommit(e) ==
    /\ ~panicked
    /\ execs[e].body = "delCommit"
    /\ DelCommitEffect(objs[execs[e].obj].t.id, execs[e].del, execs[e].obj)
    /\ execs' = [execs EXCEPT ![e].body = "delDeferred",
                              ![e].acqs = @ \cup DelLocks]
    /\ UNCHANGED <<opts, menu, modes, timed, kept, maps, ctask, canceled, taskSem, callers,
                   ncalls, panicked>>

ExecDelDeferred(e) ==
    /\ ~panicked
    /\ execs[e].body = "delDeferred"
    /\ DelDeferredEffect(execs[e].del, execs[e].obj)
    /\ execs' = [execs EXCEPT ![e].body = "unlock", ![e].del = NoDel]
    /\ UNCHANGED <<opts, menu, modes, timed, kept, maps, tasks, ctask, taskSem, callers,
                   ncalls, panicked>>

\* A goroutine that never comes to release its slot.
AtExit_Never(body) == FALSE

\* A goroutine that gives its slot back as soon as the body has returned.
AtExit_AfterBody(body) == body \in {"unlock", "resched", "delLookup"}

\* execTask, line 269: defer unlockSem is the goroutine's first defer, so
\* it runs last, after onTaskError and after the deferred Del of line 286.
AtExit(body) == body = "unlock"

\* unlockSem, lines 302-306, the goroutine's last deferred call: a receive,
\* which a closed and drained channel answers at once.
ExecUnlock(e) ==
    /\ ~panicked
    /\ AtExit(execs[e].body)
    /\ IF opts.WorkerLimit > 0
       THEN /\ taskSem.n > 0 \/ taskSem.closed
            /\ taskSem' = [taskSem EXCEPT !.n = IF @ > 0 THEN @ - 1 ELSE 0]
       ELSE UNCHANGED taskSem
    /\ execs' = Settled([execs EXCEPT ![e].body = "done"])
    /\ UNCHANGED <<opts, menu, modes, timed, kept, maps, tasks, objs, ctask, canceled, callers, ncalls, panicked>>

\* ------------------------------------------------------------- time
Dec(n) == IF n > 0 THEN n - 1 ELSE 0

\* One unit of time passes.
Tick ==
    /\ ~panicked
    /\ timed
    /\ \/ \E o \in DOMAIN objs :
            \/ objs[o].alarm.rem > 0
            \/ objs[o].t.timer.rem > 0
            \/ objs[o].h.minWait > 0
       \/ \E c \in Callers : callers[c].pc = "locked"
                             /\ callers[c].cfg.StartAfter > 0
    /\ objs' = [ o \in DOMAIN objs |->
                 [objs[o] EXCEPT !.alarm.rem = Dec(@),
                                 !.t.timer.rem = Dec(@),
                                 !.h.untilStart = Dec(@),
                                 !.h.minWait = Dec(@)] ]
    /\ callers' = [ c \in Callers |->
                    [callers[c] EXCEPT !.cfg.StartAfter = Dec(@)] ]
    /\ ctask' = [ k \in CallerTasks |-> [ctask[k] EXCEPT !.cfg.StartAfter = Dec(@)] ]
    /\ UNCHANGED <<opts, menu, modes, timed, kept, maps, tasks, canceled, taskSem, execs, ncalls, panicked>>

\* ------------------------------------------------------------- holders
\* Task.Clone of the stored task o, as Lookup and Tasks return it: the
\* fields by value, the timer by pointer, the policies in a map of its own.
CloneStored(o, fresh) ==
    [objs[o].t EXCEPT !.timer = o,
                      !.rescheduleOnError = CloneMap(@, fresh)]

\* Lookup (lines 194-202) and Tasks (lines 218-226), under s.RLock: the
\* caller gets a clone of the task stored under name (of the clones Tasks
\* returns, the caller keeps that of name), or Lookup's error.
CallCopy(c, op, name) ==
    /\ ~panicked
    /\ callers[c].pc = "idle"
    /\ \A d \in Callers : d < c => callers[d].pc # "idle"
    /\ ncalls < MaxCalls
    /\ ncalls' = ncalls + 1
    /\ IF Has(name)
       THEN LET o == tasks[name]
                copy == CloneStored(o, CopyMap(c))
            IN  /\ callers' = [callers EXCEPT ![c] =
                                 [IdleCaller EXCEPT
                                    !.op = op, !.id = name,
                                    !.ret = Nil, !.copy = copy,
                                    !.acqs = IF op = "Lookup" THEN LookupLocks(TRUE)
                                             ELSE TasksLocks(Cardinality(DOMAIN tasks))]]
                /\ maps' = ClonedMaps(maps, objs[o].t.rescheduleOnError,
                                      copy.rescheduleOnError)
       ELSE /\ callers' = [callers EXCEPT ![c] =
                             [IdleCaller EXCEPT
                                !.op = op, !.id = name,
                                !.ret = IF op = "Lookup" THEN Lookup(name).err
                                        ELSE Nil,
                                !.acqs = IF op = "Lookup" THEN LookupLocks(FALSE)
                                         ELSE TasksLocks(Cardinality(DOMAIN tasks))]]
            /\ UNCHANGED maps
    /\ UNCHANGED <<opts, menu, modes, timed, kept, tasks, objs, ctask, canceled, taskSem,
                   execs, panicked>>

\* Has, lines 205-212, under s.RLock.
CallHas(c, name) ==
    /\ ~panicked
    /\ callers[c].pc = "idle"
    /\ \A d \in Callers : d < c => callers[d].pc # "idle"
    /\ ncalls < MaxCalls
    /\ ncalls' = ncalls + 1
    /\ callers' = [callers EXCEPT ![c] =
                     [IdleCaller EXCEPT !.op = "Has", !.id = name,
                                        !.ret = IF Has(name) THEN "true"
                                                ELSE "false",
                                        !.acqs = HasLocks]]
    /\ UNCHANGED <<opts, menu, modes, timed, kept, maps, tasks, objs, ctask, canceled,
                   taskSem, execs, panicked>>

\* The entry a holder of a Task sets with WithRescheduleOnError.
HolderOpts == [ interval |-> 2, count |-> 2 ]

\* WithRescheduleOnError, lines 564-576, on a Task whose map is at the
\* address a (fresh: that of the map it makes if the Task has none): the
\* maps afterwards, and the Task's map.
WithRescheduleOnError(m, a, fresh, err, o) ==
    LET addr == IF a = NilMap THEN fresh ELSE a
        old == IF a = NilMap THEN EmptyMap ELSE m[a]
    IN  [ maps |-> Store(m, addr, Store(old, err, o)), addr |-> addr ]

\* The caller's k-th Task is not in a call of the scheduler's and was
\* registered.
Registered(k) ==
    /\ ctask[k].id # 0
    /\ \A c \in Callers : callers[c].pc # "idle" => callers[c].k # k

\* The caller assigns to the exported fields of the Task it registered.
CallerSetFields(k) ==
    /\ Registered(k)
    /\ ctask[k].cfg.RetriesOnError # HolderOpts.count
    /\ ctask' = [ctask EXCEPT ![k].cfg.Interval = HolderOpts.interval,
                              ![k].cfg.RunOnce = ~@,
                              ![k].cfg.RetriesOnError = HolderOpts.count]
    /\ UNCHANGED <<opts, menu, modes, timed, kept, maps, tasks, objs, canceled, taskSem,
                   callers, execs, ncalls, panicked>>

\* The caller calls WithRescheduleOnError on the Task it registered.
CallerWithRescheduleOnError(k, err) ==
    /\ Registered(k)
    /\ LET w == WithRescheduleOnError(maps, ctask[k].cfg.rescheduleOnError,
                                      CallerMap(k), err, HolderOpts)
       IN  /\ maps' = w.maps
           /\ maps' # maps
           /\ ctask' = [ctask EXCEPT ![k].cfg.rescheduleOnError = w.addr]
    /\ UNCHANGED <<opts, menu, modes, timed, kept, tasks, objs, canceled, taskSem,
                   callers, execs, ncalls, panicked>>

\* A caller assigns to the exported fields of the copy it holds.
CopySetFields(c) ==
    /\ callers[c].pc = "idle"
    /\ callers[c].copy # NoCopy
    /\ callers[c].copy.RetriesOnError # HolderOpts.count
    /\ callers' = [callers EXCEPT ![c].copy.Interval = HolderOpts.interval,
                                  ![c].copy.RunOnce = ~@,
                                  ![c].copy.RetriesOnError = HolderOpts.count]
    /\ UNCHANGED <<opts, menu, modes, timed, kept, maps, tasks, objs, ctask, canceled,
                   taskSem, execs, ncalls, panicked>>

\* A caller calls WithRescheduleOnError on the copy it holds.
CopyWithRescheduleOnError(c, err) ==
    /\ callers[c].pc = "idle"
    /\ callers[c].copy # NoCopy
    /\ LET w == WithRescheduleOnError(maps, callers[c].copy.rescheduleOnError,
                                      CopyMap(c), err, HolderOpts)
       IN  /\ maps' = w.maps
           /\ maps' # maps
           /\ callers' = [callers EXCEPT ![c].copy.rescheduleOnError = w.addr]
    /\ UNCHANGED <<opts, menu, modes, timed, kept, tasks, objs, ctask, canceled, taskSem,
                   execs, ncalls, panicked>>

\* A modification of a Task object held outside the scheduler.
HolderStep ==
    \/ \E k \in CallerTasks : CallerSetFields(k)
    \/ \E k \in CallerTasks : CallerWithRescheduleOnError(k, "E1")
    \/ \E c \in Callers : CopySetFields(c)
    \/ \E c \in Callers : CopyWithRescheduleOnError(c, "E1")

\* ------------------------------------------------------------- the system
Next ==
    \/ \E c \in Callers, op \in {"Add", "AddWithID"}, id \in IDs,
          k \in CallerTasks, cfg \in menu, mode \in modes :
            CallAdd(c, op, id, k, cfg, mode)
    \/ \E c \in Callers : AddLocked(c)
    \/ \E c \in Callers, name \in IDs : CallDel(c, name)
    \/ \E c \in Callers : DelCommit(c)
    \/ \E c \in Callers : DelDeferred(c)
    \/ \E c \in Callers : CallStop(c)
    \/ \E c \in Callers : StopNext(c)
    \/ \E c \in Callers : StopDel(c)
    \/ \E c \in Callers : StopDelDeferred(c)
    \/ \E c \in Callers : StopClose(c)
    \/ \E o \in DOMAIN objs : AlarmFire(o)
    \/ \E o \in DOMAIN objs : AlarmArm(o)
    \/ \E o \in DOMAIN objs : TimerFire(o)
    \/ \E e \in DOMAIN execs : ExecAcquire(e)
    \/ \E e \in DOMAIN execs : ExecPanic(e)
    \/ \E e \in DOMAIN execs : ExecReset(e)
    \/ \E e \in DOMAIN execs, err \in BodyResults : BodyReturn(e, err)
    \/ \E e \in DOMAIN execs : ExecDelLookup(e)
    \/ \E e \in DOMAIN execs : ExecDelCommit(e)
    \/ \E e \in DOMAIN execs : ExecDelDeferred(e)
    \/ \E e \in DOMAIN execs : ExecUnlock(e)

\* The same with time passing.
NextTimed ==
    \/ Next
    \/ Tick

Spec == Init /\ [][Next]_vars

\* The runs in which durations are kept and time passes.
InitTimed ==
    /\ opts \in [ WorkerLimit : 0 .. MaxWorkerLimit, TaskLimit : 0 .. MaxTaskLimit ]
    /\ menu \in { {t} : t \in TimedTasks }
    /\ modes = {"new"}
    /\ timed = TRUE
    /\ kept = TRUE
    /\ tasks = EmptyMap
    /\ objs = <<>>
    /\ ctask = [ k \in CallerTasks |-> ZeroTask ]
    /\ maps = EmptyMap
    /\ canceled = {}
    /\ taskSem = [ n |-> 0, closed |-> FALSE ]
    /\ callers = [ c \in Callers |-> IdleCaller ]
    /\ execs = <<>>
    /\ ncalls = 0
    /\ panicked = FALSE

SpecTimed == InitTimed /\ [][NextTimed]_vars

\* The runs of tasks with reschedule policies, with the steps of
\* rescheduleTaskOnError.
NextPolicy ==
    \/ Next
    \/ \E e \in DOMAIN execs, k \in PolicyErrors : ReschedRead(e, k)
    \/ \E e \in DOMAIN execs : ReschedWrite(e)

InitPolicy ==
    /\ opts \in [ WorkerLimit : 0 .. MaxWorkerLimit, TaskLimit : {0} ]
    /\ menu \in { {t} : t \in PolicyTasks }
    /\ modes = {"new"}
    /\ timed = FALSE
    /\ kept = TRUE
    /\ tasks = EmptyMap
    /\ objs = <<>>
    /\ ctask = [ k \in CallerTasks |-> ZeroTask ]
    /\ maps = EmptyMap
    /\ canceled = {}
    /\ taskSem = [ n |-> 0, closed |-> FALSE ]
    /\ callers = [ c \in Callers |-> IdleCaller ]
    /\ execs = <<>>
    /\ ncalls = 0
    /\ panicked = FALSE

SpecPolicy == InitPolicy /\ [][NextPolicy]_vars

\* WithRescheduleOnError, lines 564-576, takes any count: a recurring task
\* whose policy for E1 has no reschedule to give from the start, and a
\* run-once task whose policy has one.
SpentTasks ==
    { [BaseTask EXCEPT !.rescheduleOnError =
                         [e \in {"E1"} |-> [interval |-> 1, count |-> 0]]],
      [BaseTask EXCEPT !.RunOnce = TRUE, !.rescheduleOnError = Policies({"E1"})] }

InitSpent ==
    /\ opts \in [ WorkerLimit : 0 .. MaxWorkerLimit, TaskLimit : {0} ]
    /\ menu \in { {t} : t \in SpentTasks }
    /\ modes = {"new"}
    /\ timed = FALSE
    /\ kept = TRUE
    /\ tasks = EmptyMap
    /\ objs = <<>>
    /\ ctask = [ k \in CallerTasks |-> ZeroTask ]
    /\ maps = EmptyMap
    /\ canceled = {}
    /\ taskSem = [ n |-> 0, closed |-> FALSE ]
    /\ callers = [ c \in Callers |-> IdleCaller ]
    /\ execs = <<>>
    /\ ncalls = 0
    /\ panicked = FALSE

SpecSpent == InitSpent /\ [][NextPolicy]_vars

\* A run-once task that runs at once (Interval 0) and has one policy, whose
\* interval is one unit of time, and one generic retry, after two units; a
\* recurring task with the same policy.
TimedPolicyTasks ==
    { [BaseTask EXCEPT !.RunOnce = TRUE, !.Interval = 0,
                       !.RetriesOnError = 1, !.RetryOnErrorInterval = 2,
                       !.rescheduleOnError = Policies({"E1"})],
      [BaseTask EXCEPT !.rescheduleOnError = Policies({"E1"})] }

\* The same runs with the passing of time.
NextPolicyTimed ==
    \/ NextPolicy
    \/ Tick

InitPolicyTimed ==
    /\ opts \in [ WorkerLimit : 0 .. MaxWorkerLimit, TaskLimit : {0} ]
    /\ menu \in { {t} : t \in TimedPolicyTasks }
    /\ modes = {"new"}
    /\ timed = TRUE
    /\ kept = TRUE
    /\ tasks = EmptyMap
    /\ objs = <<>>
    /\ ctask = [ k \in CallerTasks |-> ZeroTask ]
    /\ maps = EmptyMap
    /\ canceled = {}
    /\ taskSem = [ n |-> 0, closed |-> FALSE ]
    /\ callers = [ c \in Callers |-> IdleCaller ]
    /\ execs = <<>>
    /\ ncalls = 0
    /\ panicked = FALSE

SpecPolicyTimed == InitPolicyTimed /\ [][NextPolicyTimed]_vars

\* The runs in which a caller may pass a Task object it has passed before,
\* also while a call that was passed the same object is under way.
InitReuse ==
    /\ opts \in [ WorkerLimit : 0 .. MaxWorkerLimit, TaskLimit : 0 .. MaxTaskLimit ]
    /\ menu \in { {BaseTask}, {[BaseTask EXCEPT !.RunOnce = TRUE]} }
    /\ modes = {"new", "reuse"}
    /\ timed = FALSE
    /\ kept = TRUE
    /\ tasks = EmptyMap
    /\ objs = <<>>
    /\ ctask = [ k \in CallerTasks |-> ZeroTask ]
    /\ maps = EmptyMap
    /\ canceled = {}
    /\ taskSem = [ n |-> 0, closed |-> FALSE ]
    /\ callers = [ c \in Callers |-> IdleCaller ]
    /\ execs = <<>>
    /\ ncalls = 0
    /\ panicked = FALSE

SpecReuse == InitReuse /\ [][Next]_vars

\* The runs in which callers also take copies with Lookup and Tasks, and
\* modify the Tasks they hold: the one they registered and the copies.
NextHolders ==
    \/ NextPolicy
    \/ \E c \in Callers, op \in {"Lookup", "Tasks"}, name \in IDs :
         CallCopy(c, op, name)
    \/ \E c \in Callers, name \in IDs : CallHas(c, name)
    \/ HolderStep

InitHolders ==
    /\ opts \in [ WorkerLimit : {MaxWorkerLimit}, TaskLimit : {0} ]
    /\ menu \in { {[BaseTask EXCEPT !.rescheduleOnError = Policies({"E1"})]},
                   {[BaseTask EXCEPT !.RunOnce = TRUE]} }
    /\ modes = {"new"}
    /\ timed = FALSE
    /\ kept = TRUE
    /\ tasks = EmptyMap
    /\ objs = <<>>
    /\ ctask = [ k \in CallerTasks |-> ZeroTask ]
    /\ maps = EmptyMap
    /\ canceled = {}
    /\ taskSem = [ n |-> 0, closed |-> FALSE ]
    /\ callers = [ c \in Callers |-> IdleCaller ]
    /\ execs = <<>>
    /\ ncalls = 0
    /\ panicked = FALSE

SpecHolders == InitHolders /\ [][NextHolders]_vars

\* The runs, of any length, of a recurring task and (under a worker limit
\* and a task limit) of a run-once task with two policies: no history is
\* kept, so MaxExecs bounds the executions in progress.
InitLive ==
    /\ opts \in [ WorkerLimit : 0 .. MaxWorkerLimit, TaskLimit : 0 .. MaxTaskLimit ]
    /\ menu \in { {BaseTask},
                   {[BaseTask EXCEPT !.RunOnce = TRUE,
                                     !.rescheduleOnError = Policies({"E1", "E2"})]} }
    /\ menu # {BaseTask} => opts.WorkerLimit > 0 /\ opts.TaskLimit > 0
    /\ modes = {"new"}
    /\ timed = FALSE
    /\ kept = FALSE
    /\ tasks = EmptyMap
    /\ objs = <<>>
    /\ ctask = [ k \in CallerTasks |-> ZeroTask ]
    /\ maps = EmptyMap
    /\ canceled = {}
    /\ taskSem = [ n |-> 0, closed |-> FALSE ]
    /\ callers = [ c \in Callers |-> IdleCaller ]
    /\ execs = <<>>
    /\ ncalls = 0
    /\ panicked = FALSE

\* The steps of the execution e that belong to the task o.
OfTask(e, o) == execs[e].obj = o

\* Timers that are armed fire, goroutines that can take a step take it, and
\* bodies return.  A timer fires however often the bound on the executions
\* in progress holds it back, and a callback that waits for a slot gets one
\* (the senders a channel blocks are served in their order): strong fairness.
Fairness ==
    /\ \A o \in 1 .. MaxCalls :
         /\ WF_vars(o \in DOMAIN objs /\ AlarmFire(o))
         /\ WF_vars(o \in DOMAIN objs /\ AlarmArm(o))
         /\ SF_vars(o \in DOMAIN objs /\ TimerFire(o))
         /\ SF_vars(\E e \in DOMAIN execs : OfTask(e, o) /\ ExecAcquire(e))
         /\ WF_vars(\E e \in DOMAIN execs : OfTask(e, o) /\ ExecReset(e))
    /\ WF_vars(\E e \in DOMAIN execs : ExecPanic(e))
    /\ WF_vars(\E e \in DOMAIN execs, err \in BodyResults : BodyReturn(e, err))
    /\ WF_vars(\E e \in DOMAIN execs : ExecDelLookup(e))
    /\ WF_vars(\E e \in DOMAIN execs : ExecDelCommit(e))
    /\ WF_vars(\E e \in DOMAIN execs : ExecDelDeferred(e))
    /\ WF_vars(\E e \in DOMAIN execs : ExecUnlock(e))
    /\ WF_vars(\E e \in DOMAIN execs, k \in PolicyErrors : ReschedRead(e, k))
    /\ WF_vars(\E e \in DOMAIN execs : ReschedWrite(e))

SpecLive == InitLive /\ [][NextPolicy]_vars /\ Fairness

\* The runs in which one task is registered and no Del or Stop is called,
\* and executions that have ended are forgotten, so that the task can
\* execute more often than MaxExecs times: a run-once task with two policies.
NextBudget ==
    \/ \E c \in Callers, op \in {"Add", "AddWithID"}, id \in IDs,
          k \in CallerTasks, cfg \in menu, mode \in modes :
            ncalls = 0 /\ CallAdd(c, op, id, k, cfg, mode)
    \/ \E c \in Callers : AddLocked(c)
    \/ \E o \in DOMAIN objs : AlarmFire(o)
    \/ \E o \in DOMAIN objs : AlarmArm(o)
    \/ \E o \in DOMAIN objs : TimerFire(o)
    \/ \E e \in DOMAIN execs : ExecAcquire(e)
    \/ \E e \in DOMAIN execs, err \in BodyResults : BodyReturn(e, err)
    \/ \E e \in DOMAIN execs, k \in PolicyErrors : ReschedRead(e, k)
    \/ \E e \in DOMAIN execs : ReschedWrite(e)
    \/ \E e \in DOMAIN execs : ExecDelLookup(e)
    \/ \E e \in DOMAIN execs : ExecDelCommit(e)
    \/ \E e \in DOMAIN execs : ExecDelDeferred(e)
    \/ \E e \in DOMAIN execs : ExecUnlock(e)

InitBudget ==
    /\ opts \in [ WorkerLimit : 0 .. MaxWorkerLimit, TaskLimit : {0} ]
    /\ menu = { [BaseTask EXCEPT !.RunOnce = TRUE,
                                 !.rescheduleOnError = Policies({"E1", "E2"})] }
    /\ modes = {"new"}
    /\ timed = FALSE
    /\ kept = FALSE
    /\ tasks = EmptyMap
    /\ objs = <<>>
    /\ ctask = [ k \in CallerTasks |-> ZeroTask ]
    /\ maps = EmptyMap
    /\ canceled = {}
    /\ taskSem = [ n |-> 0, closed |-> FALSE ]
    /\ callers = [ c \in Callers |-> IdleCaller ]
    /\ execs = <<>>
    /\ ncalls = 0
    /\ panicked = FALSE

SpecBudget == InitBudget /\ [][NextBudget]_vars

\* The fair runs of a scheduler with a worker limit in which every
\* execution is kept: a recurring task, or a run-once task with a policy.
InitGate ==
    /\ opts \in [ WorkerLimit : 1 .. MaxWorkerLimit, TaskLimit : {0} ]
    /\ menu \in { {BaseTask},
                   {[BaseTask EXCEPT !.RunOnce = TRUE,
                                     !.rescheduleOnError = Policies({"E1"})]} }
    /\ modes = {"new"}
    /\ timed = FALSE
    /\ kept = TRUE
    /\ tasks = EmptyMap
    /\ objs = <<>>
    /\ ctask = [ k \in CallerTasks |-> ZeroTask ]
    /\ maps = EmptyMap
    /\ canceled = {}
    /\ taskSem = [ n |-> 0, closed |-> FALSE ]
    /\ callers = [ c \in Callers |-> IdleCaller ]
    /\ execs = <<>>
    /\ ncalls = 0
    /\ panicked = FALSE

SpecGate == InitGate /\ [][NextPolicy]_vars /\ Fairness


\* ------------------------------------------------------------- properties
\* The executions whose body is running.
Running == { e \in DOMAIN execs : execs[e].body = "run" }

\* The step in which caller c leaves the locked section of AddWithID.
LockedStep(c) == callers[c].pc = "locked" /\ callers'[c] # callers[c]

\* C1: with WorkerLimit = K > 0, at most K task bodies are executing in any
\* reachable state, so a tick that fires while K bodies are running does not
\* start its body before one of them has completed.
C1_WorkerLimit ==
    opts.WorkerLimit > 0 => Cardinality(Running) <= opts.WorkerLimit

\* K bodies are running and a further tick waits for a slot.
C1_Witness ==
    /\ opts.WorkerLimit > 0
    /\ ~taskSem.closed
    /\ Cardinality(Running) = opts.WorkerLimit
    /\ \E e \in DOMAIN execs : execs[e].cb = "lockSem"

\* C2: the capacity check, the duplicate check and the insertion are one
\* step: the registry never holds more than TaskLimit tasks, and a stored
\* task is never replaced by a registration under the same identifier: the
\* registrations that succeeded and were not deleted are the registry's
\* entries, each under its own identifier.
C2_AtomicRegistration ==
    /\ opts.TaskLimit > 0 => Cardinality(DOMAIN tasks) <= opts.TaskLimit
    /\ \A o \in DOMAIN objs :
         objs[o].h.stored <=> \E name \in DOMAIN tasks : tasks[name] = o
    /\ \A name \in DOMAIN tasks : objs[tasks[name]].t.id = name

\* Two registrations under one identifier overlapped (the second thread calls
\* only while the first is in a call): one was stored, the other refused.
C2_Witness ==
    /\ callers[1].op = "AddWithID" /\ callers[1].ret = Nil
    /\ callers[2].op = "AddWithID" /\ callers[2].ret = ErrIDInUse
    /\ Cardinality(DOMAIN tasks) = 1
    /\ Len(objs) = 1

\* C3: with TaskLimit = M > 0, a registration of a valid task under a fresh
\* identifier made while the registry holds fewer than M tasks succeeds, and
\* every registration made while it holds M returns ErrTaskLimitExceeded,
\* stores nothing and schedules nothing.
C3_TaskLimit ==
    [][ \A c \in Callers :
          LockedStep(c) /\ opts.TaskLimit > 0 =>
            IF Cardinality(DOMAIN tasks) >= opts.TaskLimit
            THEN /\ callers'[c].ret = ErrTaskLimitExceeded
                 /\ tasks' = tasks
                 /\ objs' = objs
            ELSE callers[c].id \notin DOMAIN tasks =>
                   /\ callers'[c].ret = Nil
                   /\ callers[c].id \in DOMAIN tasks'
                   /\ Len(objs') = Len(objs) + 1 ]_vars

\* The registry is full and a registration was refused for it.
C3_Witness ==
    /\ opts.TaskLimit > 0
    /\ Cardinality(DOMAIN tasks) = opts.TaskLimit
    /\ \E c \in Callers : callers[c].ret = ErrTaskLimitExceeded

\* C4 as stated: AddWithID of an identifier that is a key of the registry
\* returns ErrIDInUse, whatever the configuration, and leaves the entry, its
\* timer and its tokens as they were.
C4_Original ==
    [][ \A c \in Callers :
          LockedStep(c) /\ callers[c].op = "AddWithID"
                        /\ callers[c].id \in DOMAIN tasks =>
            /\ callers'[c].ret = ErrIDInUse
            /\ tasks' = tasks /\ objs' = objs /\ canceled' = canceled ]_vars

\* C4, amended: AddWithID of an identifier that is a key of the registry
\* returns ErrTaskLimitExceeded if a TaskLimit is configured and reached, and
\* ErrIDInUse otherwise; in both cases the entry, its timer and its tokens
\* are as they were.
C4_DuplicateID ==
    [][ \A c \in Callers :
          LockedStep(c) /\ callers[c].op = "AddWithID"
                        /\ callers[c].id \in DOMAIN tasks =>
            /\ callers'[c].ret =
                 IF opts.TaskLimit > 0 /\ Cardinality(DOMAIN tasks) >= opts.TaskLimit
                 THEN ErrTaskLimitExceeded ELSE ErrIDInUse
            /\ tasks' = tasks /\ objs' = objs /\ canceled' = canceled ]_vars

\* A registration was refused with ErrIDInUse and the registry holds an entry.
C4_Witness ==
    /\ \E c \in Callers : callers[c].op = "AddWithID" /\ callers[c].ret = ErrIDInUse
    /\ tasks # EmptyMap

\* The errors of the validation.
ValidationErrors ==
    { ErrTaskExecFunctionsNotSet, ErrTaskErrFunctionsNotSet, ErrIntervalEmpty,
      ErrRetryOnErrorIntervalEmpty }

\* The precondition the claim lists first among those t violates.
HasBody(t) == t.TaskFunc \/ t.FuncWithTaskContext
HasHandler(t) == t.ErrFunc \/ t.ErrFuncWithTaskContext

C6_Registered ==
    [][ \A c \in Callers, id \in IDs :
          ( /\ LockedStep(c)
            /\ callers[c].id = id
            /\ id \notin DOMAIN tasks
            /\ ~(opts.TaskLimit > 0 /\ Cardinality(DOMAIN tasks) >= opts.TaskLimit) ) =>
          /\ callers'[c].ret = Nil
          /\ Lookup(id)'.err = Nil
          /\ Lookup(id)'.task.t.id = id
          /\ Has(id)'
          /\ id \in DOMAIN Tasks'
          /\ Tasks'[id] = objs'[Len(objs')]
          /\ Len(objs') = Len(objs) + 1
          /\ Cardinality(DOMAIN tasks') = Cardinality(DOMAIN tasks) + 1 ]_vars

\* Two tasks are registered, each found under its identifier.
C6_Witness ==
    /\ Cardinality(DOMAIN tasks) = 2
    /\ \A id \in DOMAIN tasks : Has(id) /\ Lookup(id).task.t.id = id
    /\ \E c \in Callers : callers[c].ret = Nil

\* C7: Add never returns ErrIDInUse: when the generated identifier is in use
\* it tries again with another one, and when it succeeds the identifier it
\* returns is the key under which the task was stored.
C7_AddRetries ==
    [][ \A c \in Callers :
          LockedStep(c) /\ callers[c].op = "Add" =>
            /\ callers'[c].ret # ErrIDInUse
            /\ ( /\ callers[c].id \in DOMAIN tasks
                 /\ ~(opts.TaskLimit > 0
                      /\ Cardinality(DOMAIN tasks) >= opts.TaskLimit) ) =>
                 /\ callers'[c].pc = "locked"
                 /\ callers'[c].id # callers[c].id
                 /\ tasks' = tasks
            /\ callers'[c].ret = Nil =>
                 /\ callers[c].id \in DOMAIN tasks'
                 /\ tasks'[callers[c].id] = Len(objs')
                 /\ objs'[Len(objs')].t.id = callers[c].id ]_vars

\* An Add found its first identifier in use and succeeded with another.
C7_Witness ==
    \E c \in Callers :
      /\ callers[c].op = "Add"
      /\ callers[c].ret = Nil
      /\ callers[c].tried # {}

\* C8: no body of a task begins before its StartAfter time, nor earlier than
\* Interval after the later of its registration and StartAfter.
C8_NotBeforeStartAfter ==
    \A e \in DOMAIN execs :
      execs[e].body # "none" =>
        /\ objs[execs[e].obj].h.untilStart = 0
        /\ objs[execs[e].obj].h.minWait = 0

\* A body of a task registered with a StartAfter in the future is running.
C8_Witness ==
    \E e \in DOMAIN execs :
      /\ execs[e].body = "run"
      /\ objs[execs[e].obj].t.StartAfter > 0
      /\ objs[execs[e].obj].h.minWait = 0

\* C9: if Del of a task returned before its deferred-start alarm fired, the
\* alarm's callback abandons the task: the interval timer is never armed and
\* neither the body nor the error handler ever runs.
C9_DeletedBeforeStart ==
    \A o \in DOMAIN objs :
      objs[o].h.delBeforeAlarm =>
        /\ objs[o].alarm.st # "checked"
        /\ objs[o].t.timer.st = "nil"
        /\ \A e \in DOMAIN execs : execs[e].obj # o
        /\ objs[o].h.errCalls = 0

\* The alarm of a task deleted before it fired has fired and done nothing.
C9_Witness ==
    \E o \in DOMAIN objs :
      /\ objs[o].h.delBeforeAlarm
      /\ objs[o].alarm.st = "done"
      /\ objs[o].t.timer.st = "nil"

\* C10 as stated: no body of a task begins after a Del of that task has
\* returned.
C10_Original ==
    \A e \in DOMAIN execs : ~execs[e].afterDel

\* C11: once a Del of a task has returned, the task's private token is
\* canceled, and so is its user token if its TaskContext carries a cancel
\* function, which it does whenever the scheduler made the token; a body that
\* is running when Del cancels the tokens goes on running.
C11_DelCancels ==
    /\ [](\A o \in DOMAIN objs :
            /\ objs[o].h.delReturned =>
                  /\ objs[o].t.ctx \in canceled
                  /\ objs[o].t.ucancel => objs[o].t.uctx \in canceled
            /\ modes = {"new"} => objs[o].t.ucancel)
    /\ [][ canceled' # canceled =>
             \A e \in DOMAIN execs :
               execs[e].body = "run" => execs'[e].body = "run" ]_vars

\* A Del of a task has returned while a body of it, started before, runs.
C11_Witness ==
    \E e \in DOMAIN execs :
      /\ execs[e].body = "run"
      /\ ~execs[e].afterDel
      /\ objs[execs[e].obj].h.delReturned
      /\ objs[execs[e].obj].t.ucancel
      /\ objs[execs[e].obj].t.uctx \in canceled

\* The Dels that take a step after their Lookup (the delete, or the deferred
\* calls), those of Del and Stop called by a caller and all of them: the
\* identifier, and what the Lookup had found.
CallerDelSteps ==
    { [ name |-> callers[c].id, del |-> callers[c].del ] :
        c \in { c \in Callers : /\ callers[c].pc \in {"delCommit", "stopDel",
                                                      "delDeferred", "stopDeferred"}
                                 /\ callers'[c] # callers[c] } }

DelSteps ==
    CallerDelSteps
    \cup
    { [ name |-> objs[execs[e].obj].t.id, del |-> execs[e].del ] :
        e \in { e \in DOMAIN execs : /\ Len(execs') = Len(execs)
                                      /\ execs[e].body \in {"delCommit", "delDeferred"}
                                      /\ execs'[e].body # execs[e].body } }

LiveRecurring(o) ==
    /\ o \in DOMAIN objs
    /\ ~objs[o].t.RunOnce
    /\ objs[o].h.stored
    /\ ~objs[o].h.delReturned

\* A body of the task o is running.
Executing(o) == \E e \in DOMAIN execs : execs[e].obj = o /\ execs[e].body = "run"

Returning ==
    { e \in DOMAIN execs : /\ Len(execs') = Len(execs)
                           /\ execs[e].body = "run"
                           /\ execs'[e].body # "run" }

\* C14: a recurring task leaves the registry only in a step of a Del or a
\* Stop that a caller called: no execution of it goes on to Del, whatever its
\* body returned; and each body that returns an error matching none of its
\* policies starts its error handler.
C14_RecurringStays ==
    [][ \A o \in DOMAIN objs :
          ~objs[o].t.RunOnce =>
            /\ objs[o].h.stored /\ ~objs'[o].h.stored =>
                  \E s \in CallerDelSteps : s.name = objs[o].t.id
            /\ \A e \in DOMAIN execs' :
                  execs'[e].obj = o => execs'[e].body \notin {"delLookup", "delCommit", "delDeferred"}
            /\ \A e \in Returning :
                  execs[e].obj = o /\ execs'[e].res = "error"
                                   /\ execs'[e].matched = {} =>
                    objs'[o].h.errCalls = objs[o].h.errCalls + 1 ]_vars

\* A recurring task is registered after one of its bodies returned an error
\* that matches no policy, which started the handler, and another an error
\* that matches one.
C14_Witness ==
    \E o \in DOMAIN objs :
      /\ ~objs[o].t.RunOnce
      /\ objs[o].h.stored
      /\ objs[o].h.errCalls = 1
      /\ \E e \in DOMAIN execs : /\ execs[e].obj = o /\ execs[e].body = "done"
                                  /\ execs[e].res = "error" /\ execs[e].matched = {}
      /\ \E e \in DOMAIN execs : /\ execs[e].obj = o /\ execs[e].body = "done"
                                  /\ execs[e].matched # {}

\* C15 as stated: once a body of a run-once task has returned nil, no body
\* of that task begins.
C15_Original ==
    \A e \in DOMAIN execs :
      objs[execs[e].obj].t.RunOnce => ~execs[e].afterNil

\* A run-once task registered without policies, no body of which has
\* returned nil, and which no Del but that of its own execution has touched.
Retried(o) ==
    /\ objs[o].t.RunOnce
    /\ objs[o].h.policies0 = EmptyMap
    /\ objs[o].h.oks = 0
    /\ ~objs[o].h.extDel

\* The executions of the task o that have not come to their end.
Pending(o, pcs) == { e \in DOMAIN execs : execs[e].obj = o /\ execs[e].body \in pcs }

\* C16: a run-once task registered with RetriesOnError = N and no policy,
\* whose bodies all return an error, starts at most N + 1 bodies; each failure
\* starts the error handler once; each of the first N uses up one retry and
\* arms the timer with RetryOnErrorInterval, the task staying registered; after
\* the (N+1)-th the timer is not armed, no execution is under way, and the
\* task is removed by the Del that ends the execution.
C16_RetriesThenRemoved ==
    /\ [](\A o \in DOMAIN objs :
            Retried(o) =>
              /\ objs[o].h.runs <= objs[o].h.retries0 + 1
              /\ objs[o].h.fails <= objs[o].h.retries0 + 1
              /\ objs[o].h.errCalls = objs[o].h.fails
              /\ objs[o].h.fails <= objs[o].h.retries0 =>
                    /\ objs[o].t.RetriesOnError = objs[o].h.retries0 - objs[o].h.fails
                    /\ objs[o].h.stored
              /\ objs[o].h.fails = objs[o].h.retries0 + 1 =>
                    /\ objs[o].t.timer.st # "armed"
                    /\ Pending(o, {"none", "run"}) = {}
                    /\ Pending(o, {"delLookup", "delCommit", "delDeferred"}) = {} => ~objs[o].h.stored)
    /\ [][ \A e \in Returning :
             LET o == execs[e].obj IN
             ( /\ Retried(o)
               /\ execs'[e].res = "error"
               /\ objs[o].t.RetriesOnError > 0 ) =>
             objs'[o].t.timer =
               [ st |-> "armed",
                 rem |-> IF timed THEN objs[o].t.RetryOnErrorInterval ELSE 0 ] ]_vars

\* A task registered with one retry has failed twice, which started two
\* bodies and two handlers, and is removed.
C16_Witness ==
    \E o \in DOMAIN objs :
      /\ Retried(o)
      /\ objs[o].h.retries0 = 1
      /\ objs[o].h.runs = 2
      /\ objs[o].h.fails = 2
      /\ objs[o].h.errCalls = 2
      /\ objs[o].t.timer.st # "armed"
      /\ ~objs[o].h.stored

\* A run-once task registered with a policy for E1 alone, every body of which
\* has returned an error matching E1, and which no Del has touched.
AlwaysMatched(o) ==
    /\ objs[o].t.RunOnce
    /\ DOMAIN objs[o].h.policies0 = {"E1"}
    /\ ~objs[o].h.extDel
    /\ \A e \in DOMAIN execs :
         (execs[e].obj = o /\ execs[e].res # None) =>
           execs[e].res = "error" /\ execs[e].matched # {}

\* C17: a run-once task registered with one policy {interval I, count C} for
\* E1, whose bodies all return an error matching E1, starts at most C + 1
\* bodies; each of the first C failures takes one from the entry's count and
\* arms the timer with I; the (C+1)-th failure leaves the timer unarmed; no
\* failure starts the handler, uses a generic retry or removes the task,
\* which stays in the registry.
C17_DormantAfterCount ==
    /\ [](\A o \in DOMAIN objs :
            AlwaysMatched(o) =>
              LET C == objs[o].h.policies0["E1"].count
                  h == objs[o].h
              IN  /\ h.runs <= C + 1
                  /\ h.fails <= C + 1
                  /\ h.resets <= C
                  /\ PolicyMap(objs[o].t)["E1"].count = C - h.resets
                  /\ Pending(o, {"resched", "reschedWrite"}) = {} =>
                        h.resets = IF h.fails <= C THEN h.fails ELSE C
                  /\ h.fails = C + 1 => objs[o].t.timer.st # "armed"
                  /\ h.errCalls = 0
                  /\ objs[o].t.RetriesOnError = h.retries0
                  /\ Pending(o, {"delLookup", "delCommit", "delDeferred"}) = {}
                  /\ h.stored
                  /\ Has(objs[o].t.id) /\ tasks[objs[o].t.id] = o)
    /\ [][ \A o \in DOMAIN objs :
             (AlwaysMatched(o) /\ objs'[o].h.resets # objs[o].h.resets) =>
               /\ objs'[o].t.timer =
                    [ st |-> "armed",
                      rem |-> IF timed THEN objs[o].h.policies0["E1"].interval
                              ELSE 0 ]
               /\ PolicyMap(objs[o].t)'["E1"].count =
                    PolicyMap(objs[o].t)["E1"].count - 1 ]_vars

\* The task has failed C + 1 = 2 times with a matching error and all its
\* executions have ended: the count is used up, the timer is not armed and
\* the task is in the registry.
C17_Witness ==
    \E o \in DOMAIN objs :
      /\ AlwaysMatched(o)
      /\ objs[o].h.policies0["E1"].count = 1
      /\ objs[o].h.runs = 2
      /\ objs[o].h.fails = 2
      /\ objs[o].h.resets = 1
      /\ PolicyMap(objs[o].t)["E1"].count = 0
      /\ \A e \in DOMAIN execs : execs[e].obj = o => execs[e].body = "done"
      /\ objs[o].t.timer.st # "armed"
      /\ Has(objs[o].t.id)

\* The executions that take a step of rescheduleTaskOnError.
Rescheduling ==
    { e \in DOMAIN execs : /\ Len(execs') = Len(execs)
                           /\ execs[e].body \in {"resched", "reschedWrite"}
                           /\ execs'[e] # execs[e] }

\* C18: an execution whose body returns an error that matches an entry the
\* task was registered with, whatever count the entry has left, skips the
\* generic failure path: its return starts no handler, takes no generic
\* retry, leaves the timer as it is and goes on to rescheduleTaskOnError,
\* whose steps arm the timer with nothing but the entry's interval; the
\* execution never comes to Del.
C18_MatchedSkipsGeneric ==
    /\ [][ \A e \in Returning :
             execs'[e].matched # {} =>
               LET o == execs[e].obj IN
               /\ objs'[o].h.errCalls = objs[o].h.errCalls
               /\ objs'[o].t.RetriesOnError = objs[o].t.RetriesOnError
               /\ objs'[o].t.timer = objs[o].t.timer
               /\ execs'[e].body = "resched" ]_vars
    /\ [][ \A e \in Rescheduling :
             LET o == execs[e].obj IN
             /\ execs[e].matched # {}
             /\ objs'[o].h.errCalls = objs[o].h.errCalls
             /\ objs'[o].t.RetriesOnError = objs[o].t.RetriesOnError
             /\ \/ objs'[o].t.timer = objs[o].t.timer
                \/ \E k \in execs[e].matched :
                     objs'[o].t.timer =
                       [ st |-> "armed",
                         rem |-> IF timed THEN objs[o].h.policies0[k].interval
                                 ELSE 0 ]
             /\ execs'[e].body \in {"resched", "reschedWrite", "unlock"} ]_vars
    /\ [](\A e \in DOMAIN execs :
            execs[e].matched # {} =>
              /\ execs[e].body \notin {"delLookup", "delCommit", "delDeferred"}
              /\ execs[e].del = NoDel)

\* A run-once task with a generic retry left has failed twice with a matching
\* error, the second time with the entry's count used up; both executions
\* have ended, no handler has started and the retry is still there.
C18_Witness ==
    \E o \in DOMAIN objs :
      /\ objs[o].t.RunOnce
      /\ objs[o].h.retries0 = 1
      /\ objs[o].t.RetriesOnError = 1
      /\ objs[o].h.errCalls = 0
      /\ objs[o].h.resets = 1
      /\ PolicyMap(objs[o].t)["E1"].count = 0
      /\ Has(objs[o].t.id)
      /\ \E e1, e2 \in DOMAIN execs :
           /\ e1 # e2
           /\ \A e \in {e1, e2} : /\ execs[e].obj = o
                                  /\ execs[e].matched # {}
                                  /\ execs[e].body = "done"

\* The executions of the task o whose body returned an error that matches no
\* entry the task was registered with.
Unmatched(o) ==
    { e \in DOMAIN execs : /\ execs[e].obj = o
                           /\ execs[e].res = "error"
                           /\ execs[e].matched = {} }

SchedState(o) ==
    [ Interval |-> objs[o].t.Interval,
      RunOnce |-> objs[o].t.RunOnce,
      RetriesOnError |-> objs[o].t.RetriesOnError,
      policies |-> PolicyMap(objs[o].t) ]

\* C20: no modification of a Task held outside the scheduler (the fields
\* and the policies of the Task the caller registered, or of a copy Lookup
\* or Tasks returned) changes the interval, the run-once flag, the retry
\* counter or the policies of a stored task; no such Task points to the
\* policy map of a stored task, whose entries are those it was registered
\* with, their counts no higher.
C20_HoldersApart ==
    /\ [][ HolderStep =>
             \A o \in DOMAIN objs : SchedState(o)' = SchedState(o) ]_vars
    /\ [](\A o \in DOMAIN objs :
            LET a == objs[o].t.rescheduleOnError
                p == objs[o].h.policies0
            IN  /\ a # NilMap =>
                      /\ \A k \in CallerTasks : ctask[k].cfg.rescheduleOnError # a
                      /\ \A c \in Callers : callers[c].copy.rescheduleOnError # a
                /\ DOMAIN PolicyMap(objs[o].t) = DOMAIN p
                /\ \A e \in DOMAIN p :
                      /\ PolicyMap(objs[o].t)[e].interval = p[e].interval
                      /\ PolicyMap(objs[o].t)[e].count <= p[e].count)

\* A task with a policy is in the registry, with the entry it was registered
\* with, while its caller has set other fields and another entry in the
\* Task it registered, and a caller has done so in a copy of the task.
C20_Witness ==
    \E o \in DOMAIN objs, k \in CallerTasks, c \in Callers :
      /\ Has(objs[o].t.id) /\ tasks[objs[o].t.id] = o
      /\ DOMAIN objs[o].h.policies0 = {"E1"}
      /\ PolicyMap(objs[o].t) = objs[o].h.policies0
      /\ objs[o].t.Interval = 1
      /\ ctask[k].id = objs[o].t.id
      /\ ctask[k].cfg.Interval = HolderOpts.interval
      /\ PolicyMap(ctask[k].cfg)["E1"] = HolderOpts
      /\ callers[c].copy.id = objs[o].t.id
      /\ callers[c].copy.Interval = HolderOpts.interval
      /\ PolicyMap(callers[c].copy)["E1"] = HolderOpts

\* C21 as stated: every task in the registry, under the key k, has the
\* identifier k and a TaskContext whose ID() is k.
C21_Original ==
    \A name \in DOMAIN tasks :
      /\ objs[tasks[name]].t.id = name
      /\ objs[tasks[name]].t.tcid = name

\* The caller c has returned from Stop, and no registration has run since
\* it called Stop or is under way.
StopReturned(c) ==
    /\ callers[c].op = "Stop"
    /\ callers[c].pc = "idle"
    /\ callers[c].n = Len(objs)
    /\ \A d \in Callers : callers[d].pc # "locked"

\* C22 as stated: after Stop has returned, with no registration at the same
\* time or later, the registry is empty and the private token of every task
\* that was registered when Stop was called is canceled, so that the
\* callback of an alarm of such a task that has yet to fire will find the
\* token canceled.
C22_Original ==
    \A c \in Callers :
      StopReturned(c) =>
        /\ tasks = EmptyMap
        /\ \A o \in callers[c].snap : objs[o].t.ctx \in canceled

\* The callers that return from Lookup, Tasks or Has in this step.
Querying ==
    { c \in Callers : /\ ncalls' # ncalls
                      /\ callers'[c] # callers[c]
                      /\ callers'[c].op \in {"Lookup", "Tasks", "Has"} }

\* C23: Lookup(id) succeeds exactly if Has(id), exactly if id is a key of
\* Tasks(); Lookup of an identifier that is not in the registry returns the
\* not-found error; a call of Lookup, Tasks or Has returns accordingly (the
\* copy being that of the task stored under the identifier) and changes
\* neither the registry nor any stored task, token or stored policy.
C23_QueriesAgree ==
    /\ [](\A name \in IDs :
            /\ (Lookup(name).err = Nil) <=> Has(name)
            /\ Has(name) <=> name \in DOMAIN Tasks
            /\ ~Has(name) => Lookup(name).err = ErrNotFound
            /\ Has(name) => /\ Lookup(name).task = objs[tasks[name]]
                            /\ Tasks[name] = objs[tasks[name]])
    /\ [][ \A c \in Querying :
             LET r == callers'[c]
                 found == r.id \in DOMAIN tasks
             IN  /\ r.pc = "idle"
                 /\ r.op = "Lookup" => r.ret = IF found THEN Nil ELSE ErrNotFound
                 /\ r.op = "Has" => r.ret = IF found THEN "true" ELSE "false"
                 /\ r.op = "Has" \/ ~found => r.copy = NoCopy
                 /\ (r.op # "Has" /\ found) =>
                       /\ r.copy.id = objs[tasks[r.id]].t.id
                       /\ r.copy.Interval = objs[tasks[r.id]].t.Interval
                       /\ r.copy.RunOnce = objs[tasks[r.id]].t.RunOnce
                       /\ r.copy.RetriesOnError = objs[tasks[r.id]].t.RetriesOnError
                       /\ (IF r.copy.rescheduleOnError = NilMap THEN EmptyMap
                           ELSE maps'[r.copy.rescheduleOnError])
                            = PolicyMap(objs[tasks[r.id]].t)
                 /\ tasks' = tasks /\ objs' = objs /\ canceled' = canceled
                 /\ taskSem' = taskSem /\ execs' = execs
                 /\ \A o \in DOMAIN objs :
                      PolicyMap(objs[o].t)' = PolicyMap(objs[o].t) ]_vars

\* A Lookup of the identifier of a task that is no longer in the registry
\* has returned the not-found error, and a Has of it false.
C23_Witness ==
    \E c, d \in Callers, o \in DOMAIN objs :
      /\ ~objs[o].h.stored
      /\ ~Has(objs[o].t.id)
      /\ callers[c].pc = "idle" /\ callers[c].op = "Lookup"
      /\ callers[c].id = objs[o].t.id
      /\ callers[c].ret = ErrNotFound

\* The lock acquisitions made in the calls of the callers (each since it
\* began) and in the executions.
Acquisitions ==
    UNION { callers[c].acqs : c \in Callers }
    \cup UNION { execs[e].acqs : e \in DOMAIN execs }

InPhase(pcs) == { e \in DOMAIN execs : execs[e].body \in pcs }

\* C25 as stated: the slots of the gate that are taken are those of bodies
\* that run or have just returned; none is held by a goroutine that is
\* rescheduling or deleting its task.
C25_Original ==
    opts.WorkerLimit > 0 =>
      taskSem.n <= Cardinality(InPhase({"run", "unlock"}))

\* C25: a goroutine gives its slot back once, whatever its body returned,
\* and as its last step: it holds the slot while the body runs, while
\* rescheduleTaskOnError resets the timer and while Del deletes the task.
C25_SlotHeldToEnd ==
    /\ [](opts.WorkerLimit > 0 =>
            taskSem.n = Cardinality(InPhase({"run", "resched", "reschedWrite",
                                             "delLookup", "delCommit",
                                             "delDeferred", "unlock"})))
    /\ [][ taskSem'.n < taskSem.n =>
             \E e \in DOMAIN execs :
               /\ execs[e].body = "unlock"
               /\ execs'[e].body = "done" ]_vars

\* Under a limit of one worker, the goroutine of a body that returned an
\* error is in Del, past the delete, with the slot taken.
C25_Witness ==
    /\ opts.WorkerLimit = 1
    /\ taskSem.n = 1
    /\ \E e \in DOMAIN execs :
         /\ execs[e].body = "delDeferred"
         /\ execs[e].res = "error"

\* C26: the callback of a recurring task's tick, once it has its slot and
\* has spawned the body, can reset the timer whether the body has returned
\* or not, and the reset arms the timer with Interval and leaves the body
\* as it is; under a worker limit no more bodies run than the limit.
C26_ResetWithoutWaiting ==
    /\ [](\A e \in DOMAIN execs :
            (~panicked /\ execs[e].cb = "reset") =>
              /\ ~objs[execs[e].obj].t.RunOnce
              /\ execs[e].body # "none"
              /\ ENABLED ExecReset(e))
    /\ [][ \A e \in DOMAIN execs :
             ( /\ Len(execs') = Len(execs)
               /\ execs[e].cb = "reset"
               /\ execs'[e].cb = "done" ) =>
             /\ objs'[execs[e].obj].t.timer =
                  [ st |-> "armed",
                    rem |-> IF timed THEN objs[execs[e].obj].t.Interval ELSE 0 ]
             /\ execs'[e].body = execs[e].body ]_vars
    /\ [](opts.WorkerLimit > 0 =>
            Cardinality(InPhase({"run"})) <= opts.WorkerLimit)

\* With no worker limit, two bodies of one recurring task run at the same
\* time: the first was still running when the timer, reset by its tick,
\* fired again after Interval.
C26_Witness ==
    /\ opts.WorkerLimit = 0
    /\ timed
    /\ \E e1, e2 \in DOMAIN execs :
         /\ e1 # e2
         /\ execs[e1].obj = execs[e2].obj
         /\ ~objs[execs[e1].obj].t.RunOnce
         /\ objs[execs[e1].obj].t.Interval > 0
         /\ execs[e1].body = "run"
         /\ execs[e2].body = "run"

\* The executions of task o whose timer has fired and whose body has not
\* returned yet.
InFlight(o) ==
    { e \in DOMAIN execs : execs[e].obj = o /\ execs[e].body \in {"none", "run"} }

\* C27 as stated: while an execution of a run-once task is between its
\* timer's fire and the return of its body the timer is not armed, and at
\* most one execution of a run-once task is in that interval.
C27_Original ==
    \A o \in DOMAIN objs :
      (objs[o].t.RunOnce /\ InFlight(o) # {}) =>
        /\ objs[o].t.timer.st # "armed"
        /\ Cardinality(InFlight(o)) <= 1

\* C28 as stated: when a run-once task was deleted while a body of it was
\* in flight (the Del returned after the body began), the error path of
\* that body, be it the generic retry or a reschedule, leaves the task's
\* timer as it is.
C28_Original ==
    [][ \A e \in DOMAIN execs :
          LET o == execs[e].obj IN
          ( /\ Len(execs') = Len(execs)
            /\ objs[o].t.RunOnce
            /\ objs[o].h.delReturned
            /\ ~execs[e].afterDel
            /\ execs[e].body \in {"run", "reschedWrite"}
            /\ execs'[e].body # execs[e].body ) =>
          objs'[o].t.timer = objs[o].t.timer ]_vars

\* The executions of task o whose body returned an error that matched a
\* policy entry with no reschedule left.
SpentRuns(o) == { e \in DOMAIN execs : execs[e].obj = o /\ execs[e].spent }

Waiting(e) == e \in DOMAIN execs /\ execs[e].cb = "lockSem"

\* The goroutine of the tick e holds a slot.
Holding(e) == e \in DOMAIN execs /\ execs[e].body \notin {"none", "done"}

\* The goroutine of the tick e has ended and the gate has a free slot.
Released(e) ==
    /\ e \in DOMAIN execs
    /\ execs[e].body = "done"
    /\ taskSem.n < opts.WorkerLimit

\* C30: under a worker limit, if goroutines run, bodies return and the
\* senders the gate blocks are served, a tick that waits for a slot gets one
\* and its body starts, unless Stop closes the gate; and a goroutine that
\* holds a slot releases it, unless the process has panicked.
C30_GateLive ==
    \A e \in 1 .. MaxExecs :
      /\ Waiting(e) ~> (taskSem.closed \/ Holding(e))
      /\ Holding(e) ~> (panicked \/ Released(e))

\* A tick waits at a full gate that Stop has not closed, while the body of
\* an earlier tick runs.
C30_Witness ==
    /\ opts.WorkerLimit > 0
    /\ taskSem.n = opts.WorkerLimit
    /\ ~taskSem.closed
    /\ \A c \in Callers : callers[c].op # "Stop"
    /\ \E e1, e2 \in DOMAIN execs :
         /\ execs[e1].body = "run"
         /\ Waiting(e2)

\* C31 as stated: under a worker limit no timer callback is in lockSem, about
\* to send or blocked in its send, once Stop has closed the gate, and no send
\* on the closed gate has brought the process down.
C31_Original ==
    opts.WorkerLimit > 0 =>
      /\ taskSem.closed => \A e \in DOMAIN execs : ~Waiting(e)
      /\ ~(panicked /\ \E e \in DOMAIN execs : Waiting(e))

\* C32 as stated: a step of a Del of one identifier, the delete or the
\* deferred calls, leaves every task registered under another identifier as
\* it is: its entry, its timer, and its private and its user token, which
\* the step does not cancel.
C32_Original ==
    [][ \A s \in DelSteps :
          \A n \in DOMAIN tasks \ {s.name} :
            LET o == tasks[n] IN
            /\ n \in DOMAIN tasks'
            /\ tasks'[n] = o
            /\ objs'[o].t.timer = objs[o].t.timer
            /\ objs[o].t.ctx \in canceled' => objs[o].t.ctx \in canceled
            /\ objs[o].t.uctx \in canceled' => objs[o].t.uctx \in canceled ]_vars

\* rescheduleTaskOnError, lines 340-358, as a whole: what the loop can leave
\* behind when it has the matching entries todo of the map m still to visit,
\* in whichever order the range over the map yields them: the map, and the
\* interval of the last timer reset (last; none if it made no reset).  An
\* entry that is used up ends the loop, any other is decremented and the
\* timer reset to its interval.
RECURSIVE Walks(_, _, _)
Walks(m, todo, last) ==
    IF todo = {}
    THEN { [ m |-> m, last |-> last ] }
    ELSE UNION { IF Exhausted(m[k])
                 THEN { [ m |-> m, last |-> last ] }
                 ELSE Walks([m EXCEPT ![k].count = @ - 1], todo \ {k},
                            [ reset |-> TRUE, interval |-> m[k].interval ])
                 : k \in todo }

\* C33 as stated: whenever the error path of a task is in the loop of
\* rescheduleTaskOnError, the entries it has still to visit allow one result
\* only: the same entries decremented and the same last reset, whatever the
\* order of the visits.
C33_Original ==
    \A e \in DOMAIN execs :
      execs[e].body = "resched" =>
        Cardinality(Walks(PolicyMap(objs[execs[e].obj].t), execs[e].todo,
                          [ reset |-> FALSE, interval |-> 0 ])) = 1

\* The sum of the counts of the entries of the policy map m.
RECURSIVE Counts(_)
Counts(m) ==
    IF DOMAIN m = {} THEN 0
    ELSE LET k == CHOOSE k \in DOMAIN m : TRUE IN
         m[k].count + Counts([ j \in DOMAIN m \ {k} |-> m[j] ])

\* C34 as stated: for every task registered with policies, no entry's count
\* is below 0 or above what it was registered with, the timer resets of the
\* policies are no more than the counts the task was registered with, and
\* each reset has taken one from a count.
C34_Original ==
    \A o \in DOMAIN objs :
      objs[o].h.policies0 # EmptyMap =>
        /\ \A k \in DOMAIN objs[o].h.policies0 :
             /\ PolicyMap(objs[o].t)[k].count >= 0
             /\ PolicyMap(objs[o].t)[k].count <= objs[o].h.policies0[k].count
        /\ objs[o].h.resets <= Counts(objs[o].h.policies0)
        /\ Counts(PolicyMap(objs[o].t)) =
             Counts(objs[o].h.policies0) - objs[o].h.resets

\* What a thread can wait for: the registry lock, the lock of a Task, the
\* lock of a clone, a slot of the gate.
Waitables == {"registry", "task", "clone", "gate"}

\* x -> y: some thread has asked for y while it held x.  The goroutine of an
\* execution holds its slot of the gate in all it does, and its callback has
\* taken the slot before it resets the timer.
WaitEdges ==
    UNION { { <<h, a.lock>> : h \in a.held } : a \in Acquisitions }
    \cup
    UNION { { <<"gate", a.lock>> : a \in { a \in execs[e].acqs :
                                             opts.WorkerLimit > 0 /\ a.lock # "gate" } }
            : e \in DOMAIN execs }

\* The edges E and the pairs two of them in a row join.
Joined(E) ==
    E \cup { <<pq[1][1], pq[2][2]>> : pq \in { pq \in E \X E : pq[1][2] = pq[2][1] } }

\* The edges E have a cycle: a path of up to four edges (there are four
\* things to wait for) leads from one of them back to it.
Cyclic(E) == \E p \in Joined(Joined(E)) : p[1] = p[2]

\* The steps of the call the caller c is in.
CallerStep(c) ==
    \/ AddLocked(c)
    \/ DelCommit(c)
    \/ DelDeferred(c)
    \/ StopNext(c)
    \/ StopDel(c)
    \/ StopDelDeferred(c)
    \/ StopClose(c)

\* The steps of the goroutine of the execution e.
GoroutineStep(e) ==
    \/ \E err \in BodyResults : BodyReturn(e, err)
    \/ \E k \in PolicyErrors : ReschedRead(e, k)
    \/ ReschedWrite(e)
    \/ ExecDelLookup(e)
    \/ ExecDelCommit(e)
    \/ ExecDelDeferred(e)
    \/ ExecUnlock(e)

\* C35: no cycle of waits can form: the order in which threads ask for the
\* registry lock, the locks of Tasks and clones and the slots of the gate
\* while they hold another of them has no cycle (a slot is asked for by a
\* thread that holds nothing, and nothing is asked for twice by its holder);
\* and as long as the process lives every call that has begun, every
\* goroutine that holds a slot and every callback that has its slot can take
\* its next step, and a callback that waits for a slot can take it or a
\* goroutine that holds one can go on.
C35_NoLockCycle ==
    /\ ~Cyclic(WaitEdges)
    /\ \A a \in Acquisitions : a.lock = "gate" => a.held = {}
    /\ ~panicked =>
         /\ \A c \in Callers :
              callers[c].pc # "idle" => ENABLED CallerStep(c)
         /\ \A e \in DOMAIN execs :
              /\ Holding(e) => ENABLED GoroutineStep(e)
              /\ execs[e].cb = "reset" => ENABLED ExecReset(e)
              /\ Waiting(e) =>
                    \/ ENABLED (ExecAcquire(e) \/ ExecPanic(e))
                    \/ \E f \in DOMAIN execs : Holding(f)

\* Under a worker limit, the goroutine of a run-once execution is in its
\* deferred Del, with the lock of its clone and its slot of the gate, while a
\* caller is in a Del of its own after its Lookup.
C35_Witness ==
    /\ opts.WorkerLimit > 0
    /\ \E e \in DOMAIN execs :
         /\ execs[e].body = "delCommit"
         /\ Acq("gate", {}) \in execs[e].acqs
         /\ Acq("task", {"registry"}) \in execs[e].acqs
    /\ \E c \in Callers :
         /\ callers[c].pc = "delCommit"
         /\ Acq("task", {"registry"}) \in callers[c].acqs

\* The tasks whose timer is reset in this step: by execTask after a tick of
\* a recurring task, by onTaskError for a retry, by rescheduleTaskOnError.
ResetTasks ==
    { o \in DOMAIN objs :
        \/ \E e \in DOMAIN execs :
             /\ Len(execs') = Len(execs)
             /\ execs[e].obj = o
             /\ \/ execs[e].cb = "reset" /\ execs'[e].cb = "done"
                \/ execs[e].body = "reschedWrite" /\ execs'[e].body # "reschedWrite"
        \/ objs'[o].t.RetriesOnError < objs[o].t.RetriesOnError }

\* C36: every execution is of a task whose deferred-start callback has
\* stored the interval timer (the callback stores it under the task's lock,
\* which every reset takes), and every timer reset, by execTask, onTaskError
\* or rescheduleTaskOnError, finds the timer set and arms it.
C36_TimerSetBeforeReset ==
    /\ [](\A e \in DOMAIN execs :
            /\ objs[execs[e].obj].alarm.st = "done"
            /\ objs[execs[e].obj].t.timer.st # "nil")
    /\ [][ \A o \in ResetTasks :
             /\ objs[o].alarm.st = "done"
             /\ objs[o].t.timer.st # "nil"
             /\ objs'[o].t.timer.st = "armed" ]_vars

\* A run-once task with Interval 0, whose timer fired as soon as it was
\* stored, has failed and had its timer reset, for a retry or a reschedule.
C36_Witness ==
    /\ timed
    /\ \E o \in DOMAIN objs :
         /\ objs[o].t.RunOnce
         /\ objs[o].t.Interval = 0
         /\ objs[o].h.fails > 0
         /\ \/ objs[o].h.resets > 0
            \/ objs[o].t.RetriesOnError < objs[o].h.retries0

\* C37 as stated: a run-once task registered with RetriesOnError = N and
\* policies of counts C1..Cn, of which no Del has been called or has
\* returned, has started at most 1 + N + C1 + ... + Cn bodies.
C37_Original ==
    \A o \in DOMAIN objs :
      ( /\ objs[o].t.RunOnce
        /\ ~objs[o].h.extDel
        /\ ~objs[o].h.delReturned ) =>
        objs[o].h.runs <= 1 + objs[o].h.retries0 + Counts(objs[o].h.policies0)

=============================================================================
